---- MODULE Spec2Model ----
(***************************************************************************)
(* Discrete-event model of the pedestrian-crossing simulator:              *)
(*   simulacion/llegadas.py            arrival generators                  *)
(*   simulacion/semaforo_fijo.py       fixed-time controller               *)
(*   simulacion/semaforo_adaptativo.py adaptive controller                 *)
(*   test_semaforo_*.py                the run drivers (seed, env.run)     *)
(*                                                                         *)
(* Time is counted in ticks of half a second, so the 1.0 s poll of the     *)
(* service loops is Sondeo = 2 ticks and min(1.0, remaining) can be        *)
(* shorter than the poll.  Every drawn duration is a whole number of       *)
(* ticks; on such values the float arithmetic of the source is exact.      *)
(*                                                                         *)
(* The simpy kernel is modelled by `agenda`: the pending events ordered    *)
(* by (time, priority, registration order).  One action is one resumption  *)
(* of one process: the code it runs up to its next yield.                  *)
(***************************************************************************)
EXTENDS Integers, Sequences, FiniteSets

VARIABLES
    cfg,                \* constructor arguments of the run (never change)
    now,                \* env.now
    agenda,             \* simpy's event queue
    pc,                 \* where each process is suspended
    cola_vehiculos,     \* cola_vehiculos.items
    cola_peatones,      \* cola_peatones.items
    vehiculo_id,        \* GeneradorLlegadas.vehiculo_id
    peaton_id,          \* GeneradorLlegadas.peaton_id
    fase_actual,        \* semaforo.fase_actual
    ciclo_numero,       \* semaforo.ciclo_numero
    serv,               \* locals of the running atender_* process
    tiempo_verde_total, \* local of fase_verde_vehicular_adaptativa
    extensiones,        \* local of fase_verde_vehicular_adaptativa
    registros,          \* the shared registros dict
    terminado,          \* env.run(until) has returned
    rng,                \* state of the seeded generator of module random
    corrida,            \* which of the repeated runs is executing
    traza,              \* the first run, step by step
    paso                \* steps taken by the repeated run

vars == <<cfg, now, agenda, pc, cola_vehiculos, cola_peatones, vehiculo_id,
          peaton_id, fase_actual, ciclo_numero, serv, tiempo_verde_total,
          extensiones, registros, terminado, rng, corrida, traza, paso>>

----------------------------------------------------------------------------
(* Bounds of the model *)

\* simulated time of a run (tiempo_sim), in ticks
Horizonte == 15
\* arrivals of vehicles after which the next inter-arrival draw is beyond the horizon
MaxVeh == 2
\* the same for pedestrians
MaxPeat == 1
\* longest drawn inter-arrival duration that stays within the horizon, in ticks
MaxEntreLlegadas == 1
\* longest drawn service duration, in ticks
MaxSorteo == 2
\* seeds tried by the repeated-run specification are 0..MaxSemilla
MaxSemilla == 7
\* simulated time of the run of Scenario B, in ticks: one whole vehicle green
HorizonteB == 122
\* vehicles that arrive in Scenario B
MaxVehB == 7
\* simulated time of the run of Scenario A, in ticks: two periods of 51 s
HorizonteA == 210
\* warm-up thresholds tried by the runs that differ in warmup are 0..MaxWarmup
MaxWarmup == 4
\* cycles a controller may start: more than fit in Horizonte when a cycle
\* takes a tick or more, so that it stops only cycles that take no time
MaxCiclos == 16

\* the poll of the service loops, min(1.0, ...) seconds, in ticks
Sondeo == 2

----------------------------------------------------------------------------
(* Configurations *)

SinSemilla == -1

Conf(modo, g_v, g_min, g_max, b, t_v, t_p, w_max, g_p, amarillo, warmup, tsim, semilla) ==
    [modo |-> modo, g_v_fijo |-> g_v, g_min |-> g_min, g_max |-> g_max,
     b_extension |-> b, t_v |-> t_v, t_p |-> t_p, w_max |-> w_max,
     g_p_fijo |-> g_p, amarillo |-> amarillo, warmup_time |-> warmup,
     tiempo_sim |-> tsim, semilla |-> semilla,
     max_v |-> MaxVeh, max_p |-> MaxPeat,
     lambda_v |-> 1, lambda_p |-> 1,
     servicios |-> 1..MaxSorteo, llegadas |-> 1..MaxEntreLlegadas, cesan_v |-> TRUE, cesan_p |-> TRUE]

\* SemaforoFijo(g_v_fijo, g_p_fijo, amarillo, warmup_time)
ConfFijo(g_v, g_p, amarillo, warmup, semilla) ==
    Conf("fijo", g_v, 0, 0, 0, 0, 0, 0, g_p, amarillo, warmup, Horizonte, semilla)

\* SemaforoAdaptativo(g_min, g_max, g_p_fijo, t_v, t_p, b_extension, w_max, amarillo, warmup_time)
ConfAdaptativo(g_min, g_max, b, t_v, t_p, w_max, g_p, amarillo, warmup, semilla) ==
    Conf("adaptativo", 0, g_min, g_max, b, t_v, t_p, w_max, g_p, amarillo, warmup,
         Horizonte, semilla)

\* The configurations explored: small durations, so that several cycles fit.
Configuraciones(semilla) ==
    { ConfFijo(3, 2, 1, 0, semilla),
      ConfAdaptativo(2, 4, 1, 1, 2, 1, 2, 1, 0, semilla),
      ConfAdaptativo(2, 5, 2, 1, 0, 3, 2, 1, 0, semilla) }

\* Configurations whose amber outlasts an inter-arrival time, so that an
\* arrival timer registered during the amber is due at its very end
ConfiguracionesEmpate ==
    { [ConfFijo(1, 2, 2, 0, SinSemilla) EXCEPT !.max_v = MaxVeh + 1],
      [ConfAdaptativo(1, 2, 1, 1, 2, 1, 2, 2, 0, SinSemilla) EXCEPT
          !.max_v = MaxVeh + 1] }

\* Configurations with durations of zero: a fixed cycle and an adaptive cycle
\* that take no time at all, and an adaptive cycle whose green may take none
ConfiguracionesSinDuracion ==
    { ConfFijo(0, 0, 0, 0, SinSemilla),
      ConfAdaptativo(0, 2, 1, 1, 2, 1, 2, 0, 0, SinSemilla),
      ConfAdaptativo(0, 2, 1, 1, 2, 1, 2, 1, 0, SinSemilla) }

\* Scenario B: SemaforoAdaptativo with g_min = 20 s, g_max = 60 s, b = 5 s,
\* t_v = 5 vehicles (G_MIN, G_MAX, B_EXTENSION, T_V of config.py), in ticks of
\* half a second; g_p = 15 s and amber = 3 s as in config.py, t_p = 1 and
\* w_max = 50 s. Vehicles arrive every tick until MaxVehB have arrived, the
\* pedestrian arrives at the first tick or never; a service lasts 2 s or
\* 25 s, the latter longer than any block of the green.
EscenarioB ==
    [ConfAdaptativo(40, 120, 10, 5, 1, 100, 30, 6, 0, SinSemilla) EXCEPT
        !.tiempo_sim = HorizonteB, !.max_v = MaxVehB,
        !.servicios = {4, 50}, !.llegadas = {1}, !.cesan_v = FALSE]

\* Scenario A: SemaforoFijo with g_v = 30 s, g_p = 15 s, amber = 3 s
\* (G_V_FIJO, G_P_FIJO, AMARILLO of config.py) and lambda_v = lambda_p = 0
EscenarioA ==
    [ConfFijo(60, 30, 6, 0, SinSemilla) EXCEPT
        !.lambda_v = 0, !.lambda_p = 0, !.tiempo_sim = HorizonteA]

\* Scenario C: SemaforoAdaptativo with lambda_p = 0
EscenarioC ==
    [ConfAdaptativo(2, 4, 1, 1, 2, 1, 2, 1, 0, SinSemilla) EXCEPT !.lambda_p = 0]

\* Arguments the constructors are given as they come: the configurations
\* above, the two scenarios without arrivals, g_min > g_max, and a warm-up
\* that lasts the whole run
ConfiguracionesLibres ==
    Configuraciones(SinSemilla)
        \cup {EscenarioA, EscenarioC,
              ConfAdaptativo(3, 2, 1, 1, 2, 1, 2, 1, 0, SinSemilla),
              ConfFijo(3, 2, 1, Horizonte, SinSemilla)}

----------------------------------------------------------------------------
(* Entities, queues *)

\* variant: the entity is stamped with the clock of the start of the run
Entidad_SinReloj(id, t) == [id |-> id, tiempo_llegada |-> 0]

\* Vehiculo(id, tiempo_llegada) / Peaton(id, tiempo_llegada)
Entidad(id, t) == [id |-> id, tiempo_llegada |-> t]
NADIE == Entidad(0, 0)

Procesos == {"gen_v", "gen_p", "ctrl", "fvv", "serv"}

\* variant: both service loops take from the vehicles' queue
ColaDe_SiempreVehiculos(clase) == cola_vehiculos

\* self.cola_vehiculos / self.cola_peatones of the service loop of a class
ColaDe(clase) == IF clase = "V" THEN cola_vehiculos ELSE cola_peatones

Max2(a, b) == IF a >= b THEN a ELSE b
Min2(a, b) == IF a <= b THEN a ELSE b

SeqMax(s) == IF s = <<>> THEN 0
             ELSE CHOOSE m \in {s[i] : i \in 1..Len(s)} :
                     \A j \in 1..Len(s) : s[j] <= m

----------------------------------------------------------------------------
(* The simpy kernel *)

Evento(t, urgente, proc) == [t |-> t, urgente |-> urgente, proc |-> proc]

\* heap order of simpy: time, then priority (URGENT before NORMAL)
Antes(e1, e2) ==
    \/ e1.t < e2.t
    \/ e1.t = e2.t /\ e1.urgente /\ ~e2.urgente

\* variant: the priority is not looked at
Programar_SoloTiempo(ag, ev) ==
    LET k == Cardinality({i \in 1..Len(ag) : ag[i].t <= ev.t})
    IN  SubSeq(ag, 1, k) \o <<ev>> \o SubSeq(ag, k + 1, Len(ag))

\* env.schedule: the new event goes after every event that is not later
\* than it (same time and priority: registration order)
Programar(ag, ev) ==
    LET k == Cardinality({i \in 1..Len(ag) : ~Antes(ev, ag[i])})
    IN  SubSeq(ag, 1, k) \o <<ev>> \o SubSeq(ag, k + 1, Len(ag))

\* env.step pops the first event while it is due before `until`
Toca(proc, lugar) ==
    /\ ~terminado
    /\ agenda # <<>>
    /\ Head(agenda).t < cfg.tiempo_sim
    /\ Head(agenda).proc = proc
    /\ pc[proc] = lugar

\* env.now as seen by the code run in this step
Ahora == Head(agenda).t

\* env.timeout(d)
Timeout(ag, d, proc) == Programar(ag, Evento(Ahora + d, FALSE, proc))

\* env.process(gen): the Initialize event is URGENT
Proceso(ag, proc) == Programar(ag, Evento(Ahora, TRUE, proc))

\* the end of a sub-process resumes the process that yielded on it
Retorno(ag, padre) == Programar(ag, Evento(Ahora, FALSE, padre))

----------------------------------------------------------------------------
(* Random draws *)

\* the k-th smallest (k from 0) of a finite set of integers
Elegir(S, k) == CHOOSE x \in S : Cardinality({y \in S : y < x}) = k

\* random.seed(semilla) and the generator behind random.expovariate,
\* abstracted as a congruential generator of period 64
SiguienteRng(r) == (13 * r + 7) % 64

\* a draw taken from any generator but the seeded one
SorteoSinSemilla(S) == S

\* the outcomes of one random.expovariate(...) among the durations S: any of
\* them when the run explores every seed, the seeded generator's otherwise
Sorteo(S) ==
    IF cfg.semilla = SinSemilla THEN S
    ELSE {Elegir(S, (rng \div 4) % Cardinality(S))}

AvanzarRng == rng' = IF cfg.semilla = SinSemilla THEN rng ELSE SiguienteRng(rng)

\* service durations
Duraciones == cfg.servicios

\* inter-arrival durations: a duration in ticks, or one that reaches the horizon
EntreLlegadas(llegados, maximo, cesan) ==
    IF llegados < maximo
    THEN cfg.llegadas \cup (IF cesan THEN {cfg.tiempo_sim - Ahora} ELSE {})
    ELSE {cfg.tiempo_sim - Ahora}

----------------------------------------------------------------------------
(* registros *)

RegistrosVacios ==
    [llegadas_vehiculos |-> <<>>, llegadas_peatones |-> <<>>,
     eventos_semaforo |-> <<>>, servicios_vehiculos |-> <<>>,
     servicios_peatones |-> <<>>, estado_colas |-> <<>>,
     decisiones_adaptativas |-> <<>>]

Grabando == Ahora >= cfg.warmup_time

SinInfo == [extension |-> 0, tiempo_total |-> 0, motivo |-> ""]
InfoExtension(n, total) == [extension |-> n, tiempo_total |-> total, motivo |-> ""]
InfoMotivo(m) == [extension |-> 0, tiempo_total |-> 0, motivo |-> m]

\* registrar_evento(fase, duracion, info_adicional) with the queue lengths cv, cp
RegistrarEvento(reg, fase, duracion, info, ciclo, cv, cp) ==
    IF Grabando
    THEN [reg EXCEPT !.eventos_semaforo = Append(@,
            [tiempo |-> Ahora, fase |-> fase, duracion |-> duracion,
             ciclo |-> ciclo, cola_v |-> cv, cola_p |-> cp, info |-> info])]
    ELSE reg

\* variant: the snapshot is assigned instead of appended
RegistrarEstadoCola_Sobrescribe(reg, fase, cv, cp) ==
    IF Grabando
    THEN [reg EXCEPT !.estado_colas =
            <<[tiempo |-> Ahora, cola_v |-> cv, cola_p |-> cp, fase |-> fase]>>]
    ELSE reg

\* registrar_estado_cola()
RegistrarEstadoCola(reg, fase, cv, cp) ==
    IF Grabando
    THEN [reg EXCEPT !.estado_colas = Append(@,
            [tiempo |-> Ahora, cola_v |-> cv, cola_p |-> cp, fase |-> fase])]
    ELSE reg

\* registrar_decision(tipo, motivo, valor)
RegistrarDecision(reg, tipo, motivo, valor, ciclo, cv, cp) ==
    IF Grabando
    THEN [reg EXCEPT !.decisiones_adaptativas = Append(@,
            [tiempo |-> Ahora, ciclo |-> ciclo, tipo |-> tipo, motivo |-> motivo,
             valor |-> valor, cola_v |-> cv, cola_p |-> cp])]
    ELSE reg

\* the arrival record of generar_vehiculos / generar_peatones
RegistrarLlegada(reg, clase, id, longitud) ==
    IF Grabando
    THEN IF clase = "V"
         THEN [reg EXCEPT !.llegadas_vehiculos = Append(@,
                 [id |-> id, tiempo |-> Ahora, cola_longitud |-> longitud])]
         ELSE [reg EXCEPT !.llegadas_peatones = Append(@,
                 [id |-> id, tiempo |-> Ahora, cola_longitud |-> longitud])]
    ELSE reg

\* variant: the wait is taken when the service ends
RegistroServicio_EsperaAlFinal(s, ciclo) ==
    [id |-> s.ent.id,
     tiempo_llegada |-> s.ent.tiempo_llegada,
     tiempo_inicio_servicio |-> Ahora - s.tiempo_servicio,
     tiempo_fin_servicio |-> Ahora,
     tiempo_espera |-> Ahora - s.ent.tiempo_llegada,
     tiempo_servicio |-> s.tiempo_servicio,
     ciclo |-> ciclo]

\* the service record of atender_vehiculos / atender_peatones
RegistroServicio(s, ciclo) ==
    [id |-> s.ent.id,
     tiempo_llegada |-> s.ent.tiempo_llegada,
     tiempo_inicio_servicio |-> Ahora - s.tiempo_servicio,
     tiempo_fin_servicio |-> Ahora,
     tiempo_espera |-> s.tiempo_espera,
     tiempo_servicio |-> s.tiempo_servicio,
     ciclo |-> ciclo]

RegistrarServicio(reg, s, ciclo) ==
    IF Grabando
    THEN IF s.clase = "V"
         THEN [reg EXCEPT !.servicios_vehiculos = Append(@, RegistroServicio(s, ciclo))]
         ELSE [reg EXCEPT !.servicios_peatones = Append(@, RegistroServicio(s, ciclo))]
    ELSE reg

----------------------------------------------------------------------------
(* The repeated run: what a step of a run shows *)

Foto ==
    [now |-> now, agenda |-> agenda, pc |-> pc,
     cola_vehiculos |-> cola_vehiculos, cola_peatones |-> cola_peatones,
     vehiculo_id |-> vehiculo_id, peaton_id |-> peaton_id,
     fase_actual |-> fase_actual, ciclo_numero |-> ciclo_numero, serv |-> serv,
     tiempo_verde_total |-> tiempo_verde_total, extensiones |-> extensiones,
     registros |-> registros, terminado |-> terminado, rng |-> rng]

\* the first seeded run is written down, the second one counts its steps
Anotar ==
    /\ corrida' = corrida
    /\ IF cfg.semilla = SinSemilla
       THEN traza' = traza /\ paso' = paso
       ELSE IF corrida = 1
            THEN traza' = Append(traza, Foto') /\ paso' = paso
            ELSE traza' = traza /\ paso' = paso + 1

----------------------------------------------------------------------------
(* Initial state: the constructors, generador.iniciar(), semaforo.iniciar() *)

ServInactivo ==
    [clase |-> "", padre |-> "", duracion |-> 0, tiempo_inicio |-> 0, tiempo_fin |-> 0,
     atendidos |-> 0, ent |-> NADIE, tiempo_espera |-> 0, tiempo_servicio |-> 0]

PcInicial == [p \in Procesos |->
                IF p \in {"gen_v", "gen_p", "ctrl"} THEN "inicio" ELSE "fin"]

AgendaInicial ==
    << [t |-> 0, urgente |-> TRUE, proc |-> "gen_v"],
       [t |-> 0, urgente |-> TRUE, proc |-> "gen_p"],
       [t |-> 0, urgente |-> TRUE, proc |-> "ctrl"] >>

Arranque(c) ==
    /\ cfg = c
    /\ now = 0
    /\ agenda = AgendaInicial
    /\ pc = PcInicial
    /\ cola_vehiculos = <<>>
    /\ cola_peatones = <<>>
    /\ vehiculo_id = 0
    /\ peaton_id = 0
    /\ fase_actual = "VERDE_VEHICULAR"
    /\ ciclo_numero = 0
    /\ serv = ServInactivo
    /\ tiempo_verde_total = 0
    /\ extensiones = 0
    /\ registros = RegistrosVacios
    /\ terminado = FALSE
    /\ rng = IF c.semilla = SinSemilla THEN 0 ELSE c.semilla
    /\ corrida = 1
    /\ traza = <<>>
    /\ paso = 0

Init == \E c \in Configuraciones(SinSemilla) : Arranque(c)

----------------------------------------------------------------------------
(* Arrival generators *)

\* generar_vehiculos up to its first yield
GenerarVehiculosInicio ==
    /\ Toca("gen_v", "inicio")
    /\ cfg.lambda_v # 0
    /\ now' = Ahora
    /\ \E d \in Sorteo(EntreLlegadas(vehiculo_id, cfg.max_v, cfg.cesan_v)) :
          agenda' = Timeout(Tail(agenda), d, "gen_v")
    /\ AvanzarRng
    /\ pc' = [pc EXCEPT !["gen_v"] = "espera"]
    /\ UNCHANGED <<cfg, cola_vehiculos, cola_peatones, vehiculo_id, peaton_id,
                   fase_actual, ciclo_numero, serv, tiempo_verde_total,
                   extensiones, registros, terminado>>
    /\ Anotar

\* generar_vehiculos from the end of its timeout to the next one
GenerarVehiculosLlegada ==
    /\ Toca("gen_v", "espera")
    /\ now' = Ahora
    /\ vehiculo_id' = vehiculo_id + 1
    /\ cola_vehiculos' = Append(cola_vehiculos, Entidad(vehiculo_id + 1, Ahora))
    /\ registros' = RegistrarLlegada(registros, "V", vehiculo_id + 1,
                                     Len(cola_vehiculos) + 1)
    /\ \E d \in Sorteo(EntreLlegadas(vehiculo_id + 1, cfg.max_v, cfg.cesan_v)) :
          agenda' = Timeout(Tail(agenda), d, "gen_v")
    /\ AvanzarRng
    /\ UNCHANGED <<cfg, pc, cola_peatones, peaton_id, fase_actual, ciclo_numero,
                   serv, tiempo_verde_total, extensiones, terminado>>
    /\ Anotar

\* generar_peatones up to its first yield
GenerarPeatonesInicio ==
    /\ Toca("gen_p", "inicio")
    /\ cfg.lambda_p # 0
    /\ now' = Ahora
    /\ \E d \in Sorteo(EntreLlegadas(peaton_id, cfg.max_p, cfg.cesan_p)) :
          agenda' = Timeout(Tail(agenda), d, "gen_p")
    /\ AvanzarRng
    /\ pc' = [pc EXCEPT !["gen_p"] = "espera"]
    /\ UNCHANGED <<cfg, cola_vehiculos, cola_peatones, vehiculo_id, peaton_id,
                   fase_actual, ciclo_numero, serv, tiempo_verde_total,
                   extensiones, registros, terminado>>
    /\ Anotar

\* generar_peatones from the end of its timeout to the next one
GenerarPeatonesLlegada ==
    /\ Toca("gen_p", "espera")
    /\ now' = Ahora
    /\ peaton_id' = peaton_id + 1
    /\ cola_peatones' = Append(cola_peatones, Entidad(peaton_id + 1, Ahora))
    /\ registros' = RegistrarLlegada(registros, "P", peaton_id + 1,
                                     Len(cola_peatones) + 1)
    /\ \E d \in Sorteo(EntreLlegadas(peaton_id + 1, cfg.max_p, cfg.cesan_p)) :
          agenda' = Timeout(Tail(agenda), d, "gen_p")
    /\ AvanzarRng
    /\ UNCHANGED <<cfg, pc, cola_vehiculos, vehiculo_id, fase_actual, ciclo_numero,
                   serv, tiempo_verde_total, extensiones, terminado>>
    /\ Anotar

\* generar_vehiculos with lambda_v = 0: random.expovariate(0) consumes a
\* random number and raises ZeroDivisionError; the process ends as a failed
\* event, scheduled at the current time with NORMAL priority
GenerarVehiculosFalla ==
    /\ Toca("gen_v", "inicio")
    /\ cfg.lambda_v = 0
    /\ now' = Ahora
    /\ agenda' = Retorno(Tail(agenda), "gen_v")
    /\ AvanzarRng
    /\ pc' = [pc EXCEPT !["gen_v"] = "error"]
    /\ UNCHANGED <<cfg, cola_vehiculos, cola_peatones, vehiculo_id, peaton_id,
                   fase_actual, ciclo_numero, serv, tiempo_verde_total,
                   extensiones, registros, terminado>>
    /\ Anotar

\* the same in generar_peatones with lambda_p = 0
GenerarPeatonesFalla ==
    /\ Toca("gen_p", "inicio")
    /\ cfg.lambda_p = 0
    /\ now' = Ahora
    /\ agenda' = Retorno(Tail(agenda), "gen_p")
    /\ AvanzarRng
    /\ pc' = [pc EXCEPT !["gen_p"] = "error"]
    /\ UNCHANGED <<cfg, cola_vehiculos, cola_peatones, vehiculo_id, peaton_id,
                   fase_actual, ciclo_numero, serv, tiempo_verde_total,
                   extensiones, registros, terminado>>
    /\ Anotar

\* env.run: the failed event of a process nobody waits for is processed and
\* its exception leaves env.run; the run is over at the current time
Aborto ==
    /\ \E g \in {"gen_v", "gen_p"} : Toca(g, "error")
    /\ now' = Ahora
    /\ agenda' = Tail(agenda)
    /\ terminado' = TRUE
    /\ UNCHANGED <<cfg, pc, cola_vehiculos, cola_peatones, vehiculo_id,
                   peaton_id, fase_actual, ciclo_numero, serv, tiempo_verde_total,
                   extensiones, registros, rng>>
    /\ Anotar

\* env.run(until=tiempo_sim): the stop event is URGENT at tiempo_sim, so no
\* event due at or after tiempo_sim is processed
FinSimulacion ==
    /\ ~terminado
    /\ agenda = <<>> \/ Head(agenda).t >= cfg.tiempo_sim
    /\ now' = cfg.tiempo_sim
    /\ terminado' = TRUE
    /\ UNCHANGED <<cfg, agenda, pc, cola_vehiculos, cola_peatones, vehiculo_id,
                   peaton_id, fase_actual, ciclo_numero, serv, tiempo_verde_total,
                   extensiones, registros, rng>>
    /\ Anotar

----------------------------------------------------------------------------
(* The service loop: atender_vehiculos / atender_peatones of both controllers *)

\* env.process(self.atender_*(duracion)) called by `padre`
NuevoAtender(clase, duracion, padre) ==
    [ServInactivo EXCEPT !.clase = clase, !.duracion = duracion, !.padre = padre]

\* variant: the poll lasts up to 2.0
EsperaSondeo_Doble(s) == Min2(2 * Sondeo, s.tiempo_fin - Ahora)

\* variant: the poll always lasts 1.0
EsperaSondeo_SinMin(s) == Sondeo

\* the poll of an empty queue: min(1.0, tiempo_fin - env.now)
EsperaSondeo(s) == Min2(Sondeo, s.tiempo_fin - Ahora)

\* variant: the duration drawn is held against what is left of the block
\* and of the green the extensions could still add
NoAlcanza_PorFase(s, ts) ==
    ts > (s.tiempo_fin - Ahora) + (cfg.g_max - tiempo_verde_total)

\* variant: the duration drawn is held against the whole phase
NoAlcanza_FaseEntera(s, ts) == ts > s.duracion

\* variant: a service that would end exactly with the phase is not begun
NoAlcanza_NiJusto(s, ts) == ts >= s.tiempo_fin - Ahora

\* variant: the remaining time is not looked at
NoAlcanza_Nunca(s, ts) == FALSE

\* tiempo_servicio > tiempo_restante
NoAlcanza(s, ts) == ts > s.tiempo_fin - Ahora

\* variant: the entity put back is stamped with the clock of the put
Reencolar_LlegadaNueva(cola, ent) == Append(cola, Entidad(ent.id, Ahora))

\* cola.put(entidad) of the entity that could not be served
Reencolar(cola, ent) == Append(cola, ent)

PonerCola(clase, q) ==
    IF clase = "V"
    THEN cola_vehiculos' = q /\ cola_peatones' = cola_peatones
    ELSE cola_peatones' = q /\ cola_vehiculos' = cola_vehiculos

\* variant: the loop returns as soon as it finds the queue empty
BucleAtender_TerminaSiVacia(s, cola, ag) ==
    IF ~(Ahora < s.tiempo_fin) \/ Len(cola) = 0
    THEN /\ serv' = ServInactivo
         /\ agenda' = Retorno(ag, s.padre)
         /\ pc' = [pc EXCEPT !["serv"] = "fin"]
         /\ PonerCola(s.clase, cola)
    ELSE /\ serv' = [s EXCEPT !.ent = Head(cola)]
         /\ agenda' = Programar(ag, Evento(Ahora, FALSE, "serv"))
         /\ pc' = [pc EXCEPT !["serv"] = "get"]
         /\ PonerCola(s.clase, Tail(cola))

\* variant: the process that took the head is resumed one second later
BucleAtender_GetDemorado(s, cola, ag) ==
    IF ~(Ahora < s.tiempo_fin)
    THEN /\ serv' = ServInactivo
         /\ agenda' = Retorno(ag, s.padre)
         /\ pc' = [pc EXCEPT !["serv"] = "fin"]
         /\ PonerCola(s.clase, cola)
    ELSE IF Len(cola) = 0
    THEN /\ serv' = s
         /\ agenda' = Timeout(ag, EsperaSondeo(s), "serv")
         /\ pc' = [pc EXCEPT !["serv"] = "sondeo"]
         /\ PonerCola(s.clase, cola)
    ELSE /\ serv' = [s EXCEPT !.ent = Head(cola)]
         /\ agenda' = Timeout(ag, Sondeo, "serv")
         /\ pc' = [pc EXCEPT !["serv"] = "get"]
         /\ PonerCola(s.clase, Tail(cola))

\* the while loop from its test to the next yield, or to the return
BucleAtender(s, cola, ag) ==
    IF ~(Ahora < s.tiempo_fin)
    THEN /\ serv' = ServInactivo
         /\ agenda' = Retorno(ag, s.padre)
         /\ pc' = [pc EXCEPT !["serv"] = "fin"]
         /\ PonerCola(s.clase, cola)
    ELSE IF Len(cola) = 0
    THEN /\ serv' = s
         /\ agenda' = Timeout(ag, EsperaSondeo(s), "serv")
         /\ pc' = [pc EXCEPT !["serv"] = "sondeo"]
         /\ PonerCola(s.clase, cola)
    ELSE \* cola.get() succeeds at once; the process resumes on its event
         /\ serv' = [s EXCEPT !.ent = Head(cola)]
         /\ agenda' = Programar(ag, Evento(Ahora, FALSE, "serv"))
         /\ pc' = [pc EXCEPT !["serv"] = "get"]
         /\ PonerCola(s.clase, Tail(cola))

\* atender_* from its start to its first yield
AtenderInicio ==
    /\ Toca("serv", "inicio")
    /\ now' = Ahora
    /\ BucleAtender([serv EXCEPT !.tiempo_inicio = Ahora,
                                 !.tiempo_fin = Ahora + serv.duracion,
                                 !.atendidos = 0],
                    ColaDe(serv.clase), Tail(agenda))
    /\ UNCHANGED <<cfg, vehiculo_id, peaton_id, fase_actual, ciclo_numero,
                   tiempo_verde_total, extensiones, registros, terminado, rng>>
    /\ Anotar

\* the poll timeout ends: continue
AtenderSondeo ==
    /\ Toca("serv", "sondeo")
    /\ now' = Ahora
    /\ BucleAtender(serv, ColaDe(serv.clase), Tail(agenda))
    /\ UNCHANGED <<cfg, vehiculo_id, peaton_id, fase_actual, ciclo_numero,
                   tiempo_verde_total, extensiones, registros, terminado, rng>>
    /\ Anotar

\* after get(): the wait, the drawn service duration, and the remaining time:
\* the entity goes back to the queue
AtenderDevolver ==
    /\ Toca("serv", "get")
    /\ now' = Ahora
    /\ \E ts \in Sorteo(Duraciones) :
          /\ NoAlcanza(serv, ts)
          /\ serv' = [serv EXCEPT !.tiempo_espera = Ahora - serv.ent.tiempo_llegada,
                                  !.tiempo_servicio = ts]
    /\ AvanzarRng
    /\ PonerCola(serv.clase, Reencolar(ColaDe(serv.clase), serv.ent))
    /\ agenda' = Timeout(Tail(agenda), serv.tiempo_fin - Ahora, "serv")
    /\ pc' = [pc EXCEPT !["serv"] = "corte"]
    /\ UNCHANGED <<cfg, vehiculo_id, peaton_id, fase_actual, ciclo_numero,
                   tiempo_verde_total, extensiones, registros, terminado>>
    /\ Anotar

\* after get(): the wait, the drawn service duration, and the remaining time:
\* the entity is served
AtenderServir ==
    /\ Toca("serv", "get")
    /\ now' = Ahora
    /\ \E ts \in Sorteo(Duraciones) :
          /\ ~NoAlcanza(serv, ts)
          /\ serv' = [serv EXCEPT !.tiempo_espera = Ahora - serv.ent.tiempo_llegada,
                                  !.tiempo_servicio = ts]
          /\ agenda' = Timeout(Tail(agenda), ts, "serv")
    /\ AvanzarRng
    /\ pc' = [pc EXCEPT !["serv"] = "servicio"]
    /\ UNCHANGED <<cfg, cola_vehiculos, cola_peatones, vehiculo_id, peaton_id,
                   fase_actual, ciclo_numero, tiempo_verde_total, extensiones,
                   registros, terminado>>
    /\ Anotar

\* the timeout of the remaining time ends: break, return
AtenderCorte ==
    /\ Toca("serv", "corte")
    /\ now' = Ahora
    /\ serv' = ServInactivo
    /\ agenda' = Retorno(Tail(agenda), serv.padre)
    /\ pc' = [pc EXCEPT !["serv"] = "fin"]
    /\ UNCHANGED <<cfg, cola_vehiculos, cola_peatones, vehiculo_id, peaton_id,
                   fase_actual, ciclo_numero, tiempo_verde_total, extensiones,
                   registros, terminado, rng>>
    /\ Anotar

\* the service timeout ends: count and record the service, continue
AtenderCompletar ==
    /\ Toca("serv", "servicio")
    /\ now' = Ahora
    /\ registros' = RegistrarServicio(registros, serv, ciclo_numero)
    \* (the locals of the finished iteration are dead: cleared)
    /\ BucleAtender([serv EXCEPT !.atendidos = @ + 1, !.ent = NADIE,
                                 !.tiempo_espera = 0, !.tiempo_servicio = 0],
                    ColaDe(serv.clase), Tail(agenda))
    /\ UNCHANGED <<cfg, vehiculo_id, peaton_id, fase_actual, ciclo_numero,
                   tiempo_verde_total, extensiones, terminado, rng>>
    /\ Anotar

----------------------------------------------------------------------------
(* SemaforoFijo.controlador *)

LongV == Len(cola_vehiculos)
LongP == Len(cola_peatones)

\* variant: the counter is incremented after the phase has been recorded
FijoNuevoCiclo_CuentaDespues(reg) ==
    /\ ciclo_numero < MaxCiclos
    /\ ciclo_numero' = ciclo_numero + 1
    /\ fase_actual' = "VERDE_VEHICULAR"
    /\ registros' =
          RegistrarEstadoCola(
              RegistrarEvento(reg, "VERDE_VEHICULAR", cfg.g_v_fijo, SinInfo,
                              ciclo_numero, LongV, LongP),
              "VERDE_VEHICULAR", LongV, LongP)
    /\ serv' = NuevoAtender("V", cfg.g_v_fijo, "ctrl")
    /\ agenda' = Proceso(Tail(agenda), "serv")
    /\ pc' = [pc EXCEPT !["ctrl"] = "verde_v", !["serv"] = "inicio"]

\* the head of the while loop up to the yield on atender_vehiculos
FijoNuevoCiclo(reg) ==
    /\ ciclo_numero < MaxCiclos
    /\ ciclo_numero' = ciclo_numero + 1
    /\ fase_actual' = "VERDE_VEHICULAR"
    /\ registros' =
          RegistrarEstadoCola(
              RegistrarEvento(reg, "VERDE_VEHICULAR", cfg.g_v_fijo, SinInfo,
                              ciclo_numero + 1, LongV, LongP),
              "VERDE_VEHICULAR", LongV, LongP)
    /\ serv' = NuevoAtender("V", cfg.g_v_fijo, "ctrl")
    /\ agenda' = Proceso(Tail(agenda), "serv")
    /\ pc' = [pc EXCEPT !["ctrl"] = "verde_v", !["serv"] = "inicio"]

\* the controller starts: first cycle, vehicle green
FijoInicio ==
    /\ cfg.modo = "fijo"
    /\ Toca("ctrl", "inicio")
    /\ now' = Ahora
    /\ FijoNuevoCiclo(registros)
    /\ UNCHANGED <<cfg, cola_vehiculos, cola_peatones, vehiculo_id, peaton_id,
                   tiempo_verde_total, extensiones, terminado, rng>>
    /\ Anotar

\* atender_vehiculos has returned: vehicle amber
FijoAmarilloVehicular ==
    /\ cfg.modo = "fijo"
    /\ Toca("ctrl", "verde_v")
    /\ now' = Ahora
    /\ fase_actual' = "AMARILLO_VEHICULAR"
    /\ registros' = RegistrarEvento(registros, "AMARILLO_VEHICULAR", cfg.amarillo,
                                    SinInfo, ciclo_numero, LongV, LongP)
    /\ agenda' = Timeout(Tail(agenda), cfg.amarillo, "ctrl")
    /\ pc' = [pc EXCEPT !["ctrl"] = "amarillo_v"]
    /\ UNCHANGED <<cfg, cola_vehiculos, cola_peatones, vehiculo_id, peaton_id,
                   ciclo_numero, serv, tiempo_verde_total, extensiones,
                   terminado, rng>>
    /\ Anotar

\* the amber timeout ends: pedestrian green
FijoVerdePeatonal ==
    /\ cfg.modo = "fijo"
    /\ Toca("ctrl", "amarillo_v")
    /\ now' = Ahora
    /\ fase_actual' = "VERDE_PEATONAL"
    /\ registros' =
          RegistrarEstadoCola(
              RegistrarEvento(registros, "VERDE_PEATONAL", cfg.g_p_fijo, SinInfo,
                              ciclo_numero, LongV, LongP),
              "VERDE_PEATONAL", LongV, LongP)
    /\ serv' = NuevoAtender("P", cfg.g_p_fijo, "ctrl")
    /\ agenda' = Proceso(Tail(agenda), "serv")
    /\ pc' = [pc EXCEPT !["ctrl"] = "verde_p", !["serv"] = "inicio"]
    /\ UNCHANGED <<cfg, cola_vehiculos, cola_peatones, vehiculo_id, peaton_id,
                   ciclo_numero, tiempo_verde_total, extensiones, terminado, rng>>
    /\ Anotar

\* atender_peatones has returned: pedestrian amber
FijoAmarilloPeatonal ==
    /\ cfg.modo = "fijo"
    /\ Toca("ctrl", "verde_p")
    /\ now' = Ahora
    /\ fase_actual' = "AMARILLO_PEATONAL"
    /\ registros' = RegistrarEvento(registros, "AMARILLO_PEATONAL", cfg.amarillo,
                                    SinInfo, ciclo_numero, LongV, LongP)
    /\ agenda' = Timeout(Tail(agenda), cfg.amarillo, "ctrl")
    /\ pc' = [pc EXCEPT !["ctrl"] = "amarillo_p"]
    /\ UNCHANGED <<cfg, cola_vehiculos, cola_peatones, vehiculo_id, peaton_id,
                   ciclo_numero, serv, tiempo_verde_total, extensiones,
                   terminado, rng>>
    /\ Anotar

\* variant: the cycle is not closed with a snapshot
FijoFinCiclo_SinCierre ==
    /\ cfg.modo = "fijo"
    /\ Toca("ctrl", "amarillo_p")
    /\ now' = Ahora
    /\ FijoNuevoCiclo(registros)
    /\ UNCHANGED <<cfg, cola_vehiculos, cola_peatones, vehiculo_id, peaton_id,
                   tiempo_verde_total, extensiones, terminado, rng>>
    /\ Anotar

\* the amber timeout ends: the snapshot that closes the cycle, and the next cycle
FijoFinCiclo ==
    /\ cfg.modo = "fijo"
    /\ Toca("ctrl", "amarillo_p")
    /\ now' = Ahora
    /\ FijoNuevoCiclo(RegistrarEstadoCola(registros, fase_actual, LongV, LongP))
    /\ UNCHANGED <<cfg, cola_vehiculos, cola_peatones, vehiculo_id, peaton_id,
                   tiempo_verde_total, extensiones, terminado, rng>>
    /\ Anotar

----------------------------------------------------------------------------
(* SemaforoAdaptativo *)

\* variant: the wait is counted from the end of the warm-up
EsperaMaximaPeatonal_DesdeWarmup ==
    IF Len(cola_peatones) = 0 THEN 0
    ELSE SeqMax([i \in 1..Len(cola_peatones) |->
                    Ahora - Max2(cola_peatones[i].tiempo_llegada, cfg.warmup_time)])

\* obtener_espera_maxima_peatonal()
EsperaMaximaPeatonal ==
    IF Len(cola_peatones) = 0 THEN 0
    ELSE SeqMax([i \in 1..Len(cola_peatones) |->
                    Ahora - cola_peatones[i].tiempo_llegada])

\* variant: the pedestrians' wait is not looked at
Evaluar_SinPrioridad(total, cola_v, espera_max_p) ==
    IF ~(total < cfg.g_max) THEN "TOPE"
    ELSE IF cola_v < cfg.t_v THEN "COLA_VEHICULAR_BAJA"
    ELSE IF total + cfg.b_extension > cfg.g_max THEN "MAXIMO_ALCANZADO"
    ELSE "EXTENDER"

\* variant: the block is added without looking at the cap
Evaluar_SinMaximo(total, cola_v, espera_max_p) ==
    IF ~(total < cfg.g_max) THEN "TOPE"
    ELSE IF espera_max_p > cfg.w_max THEN "PRIORIDAD_PEATONAL"
    ELSE IF cola_v < cfg.t_v THEN "COLA_VEHICULAR_BAJA"
    ELSE "EXTENDER"

\* variant: the queue has to exceed the threshold
Evaluar_UmbralEstricto(total, cola_v, espera_max_p) ==
    IF ~(total < cfg.g_max) THEN "TOPE"
    ELSE IF espera_max_p > cfg.w_max THEN "PRIORIDAD_PEATONAL"
    ELSE IF cola_v <= cfg.t_v THEN "COLA_VEHICULAR_BAJA"
    ELSE IF total + cfg.b_extension > cfg.g_max THEN "MAXIMO_ALCANZADO"
    ELSE "EXTENDER"

\* variant: the vehicle queue is looked at before the pedestrians' wait
Evaluar_ColaPrimero(total, cola_v, espera_max_p) ==
    IF ~(total < cfg.g_max) THEN "TOPE"
    ELSE IF cola_v < cfg.t_v THEN "COLA_VEHICULAR_BAJA"
    ELSE IF espera_max_p > cfg.w_max THEN "PRIORIDAD_PEATONAL"
    ELSE IF total + cfg.b_extension > cfg.g_max THEN "MAXIMO_ALCANZADO"
    ELSE "EXTENDER"

\* the while test and the three stop conditions of
\* fase_verde_vehicular_adaptativa, in the order of the code
Evaluar(total, cola_v, espera_max_p) ==
    IF ~(total < cfg.g_max) THEN "TOPE"
    ELSE IF espera_max_p > cfg.w_max THEN "PRIORIDAD_PEATONAL"
    ELSE IF cola_v < cfg.t_v THEN "COLA_VEHICULAR_BAJA"
    ELSE IF total + cfg.b_extension > cfg.g_max THEN "MAXIMO_ALCANZADO"
    ELSE "EXTENDER"

\* the valor dict of the FIN_EXTENSION decision
ValorFin(motivo, total, cola_v, espera_max_p) ==
    IF motivo = "PRIORIDAD_PEATONAL" THEN <<espera_max_p, cfg.w_max>>
    ELSE IF motivo = "COLA_VEHICULAR_BAJA" THEN <<cola_v, cfg.t_v>>
    ELSE <<total, cfg.g_max>>

\* variant: only a queue of t_p or more activates the phase
DebeActivarFasePeatonal_SoloUmbral(cola_p, espera_max_p) ==
    IF cola_p >= cfg.t_p THEN <<TRUE, "COLA_PEATONAL_ALTA">>
    ELSE <<FALSE, "SIN_PEATONES">>

\* variant: the wait is looked at before the length of the queue
DebeActivarFasePeatonal_EsperaPrimero(cola_p, espera_max_p) ==
    IF espera_max_p > cfg.w_max THEN <<TRUE, "ESPERA_EXCESIVA">>
    ELSE IF cola_p >= cfg.t_p THEN <<TRUE, "COLA_PEATONAL_ALTA">>
    ELSE IF cola_p > 0 THEN <<TRUE, "HAY_PEATONES">>
    ELSE <<FALSE, "SIN_PEATONES">>

\* variant: without the activation by default
DebeActivarFasePeatonal_SinDefecto(cola_p, espera_max_p) ==
    IF cola_p >= cfg.t_p THEN <<TRUE, "COLA_PEATONAL_ALTA">>
    ELSE IF espera_max_p > cfg.w_max THEN <<TRUE, "ESPERA_EXCESIVA">>
    ELSE <<FALSE, "SIN_PEATONES">>

\* debe_activar_fase_peatonal()
DebeActivarFasePeatonal(cola_p, espera_max_p) ==
    IF cola_p >= cfg.t_p THEN <<TRUE, "COLA_PEATONAL_ALTA">>
    ELSE IF espera_max_p > cfg.w_max THEN <<TRUE, "ESPERA_EXCESIVA">>
    ELSE IF cola_p > 0 THEN <<TRUE, "HAY_PEATONES">>
    ELSE <<FALSE, "SIN_PEATONES">>

\* controlador: the head of the while loop up to the yield on
\* fase_verde_vehicular_adaptativa
AdaptativoNuevoCiclo(reg) ==
    /\ ciclo_numero < MaxCiclos
    /\ ciclo_numero' = ciclo_numero + 1
    /\ fase_actual' = "VERDE_VEHICULAR"
    /\ registros' = RegistrarEstadoCola(reg, "VERDE_VEHICULAR", LongV, LongP)
    /\ agenda' = Proceso(Tail(agenda), "fvv")
    /\ pc' = [pc EXCEPT !["ctrl"] = "verde_v", !["fvv"] = "inicio"]

\* the controller starts: first cycle
AdaptativoInicio ==
    /\ cfg.modo = "adaptativo"
    /\ Toca("ctrl", "inicio")
    /\ now' = Ahora
    /\ AdaptativoNuevoCiclo(registros)
    /\ UNCHANGED <<cfg, cola_vehiculos, cola_peatones, vehiculo_id, peaton_id,
                   serv, tiempo_verde_total, extensiones, terminado, rng>>
    /\ Anotar

\* variant: the initial block serves for one extension block
FaseVerdeInicial_BloqueDeExtension ==
    /\ Toca("fvv", "inicio")
    /\ now' = Ahora
    /\ tiempo_verde_total' = cfg.g_min
    /\ extensiones' = 0
    /\ registros' = RegistrarEvento(registros, "VERDE_VEHICULAR_INICIAL", cfg.g_min,
                                    InfoExtension(0, cfg.g_min), ciclo_numero,
                                    LongV, LongP)
    /\ serv' = NuevoAtender("V", cfg.b_extension, "fvv")
    /\ agenda' = Proceso(Tail(agenda), "serv")
    /\ pc' = [pc EXCEPT !["fvv"] = "bloque", !["serv"] = "inicio"]
    /\ UNCHANGED <<cfg, cola_vehiculos, cola_peatones, vehiculo_id, peaton_id,
                   fase_actual, ciclo_numero, terminado, rng>>
    /\ Anotar

\* fase_verde_vehicular_adaptativa up to the yield on the initial block
FaseVerdeInicial ==
    /\ Toca("fvv", "inicio")
    /\ now' = Ahora
    /\ tiempo_verde_total' = cfg.g_min
    /\ extensiones' = 0
    /\ registros' = RegistrarEvento(registros, "VERDE_VEHICULAR_INICIAL", cfg.g_min,
                                    InfoExtension(0, cfg.g_min), ciclo_numero,
                                    LongV, LongP)
    /\ serv' = NuevoAtender("V", cfg.g_min, "fvv")
    /\ agenda' = Proceso(Tail(agenda), "serv")
    /\ pc' = [pc EXCEPT !["fvv"] = "bloque", !["serv"] = "inicio"]
    /\ UNCHANGED <<cfg, cola_vehiculos, cola_peatones, vehiculo_id, peaton_id,
                   fase_actual, ciclo_numero, terminado, rng>>
    /\ Anotar

\* variant: the service loop of an extension runs for g_min
FaseVerdeExtender_BloqueMinimo ==
    /\ Toca("fvv", "bloque")
    /\ Evaluar(tiempo_verde_total, LongV, EsperaMaximaPeatonal) = "EXTENDER"
    /\ now' = Ahora
    /\ extensiones' = extensiones + 1
    /\ tiempo_verde_total' = tiempo_verde_total + cfg.b_extension
    /\ registros' =
          RegistrarEvento(
              RegistrarDecision(registros, "EXTENSION", "ALTA_DEMANDA_VEHICULAR",
                                <<extensiones + 1,
                                  tiempo_verde_total + cfg.b_extension, LongV>>,
                                ciclo_numero, LongV, LongP),
              "VERDE_VEHICULAR_EXTENSION", cfg.b_extension,
              InfoExtension(extensiones + 1, tiempo_verde_total + cfg.b_extension),
              ciclo_numero, LongV, LongP)
    /\ serv' = NuevoAtender("V", cfg.g_min, "fvv")
    /\ agenda' = Proceso(Tail(agenda), "serv")
    /\ pc' = [pc EXCEPT !["serv"] = "inicio"]
    /\ UNCHANGED <<cfg, cola_vehiculos, cola_peatones, vehiculo_id, peaton_id,
                   fase_actual, ciclo_numero, terminado, rng>>
    /\ Anotar

\* a block has ended and the loop extends the green by one block
FaseVerdeExtender ==
    /\ Toca("fvv", "bloque")
    /\ Evaluar(tiempo_verde_total, LongV, EsperaMaximaPeatonal) = "EXTENDER"
    /\ now' = Ahora
    /\ extensiones' = extensiones + 1
    /\ tiempo_verde_total' = tiempo_verde_total + cfg.b_extension
    /\ registros' =
          RegistrarEvento(
              RegistrarDecision(registros, "EXTENSION", "ALTA_DEMANDA_VEHICULAR",
                                <<extensiones + 1,
                                  tiempo_verde_total + cfg.b_extension, LongV>>,
                                ciclo_numero, LongV, LongP),
              "VERDE_VEHICULAR_EXTENSION", cfg.b_extension,
              InfoExtension(extensiones + 1, tiempo_verde_total + cfg.b_extension),
              ciclo_numero, LongV, LongP)
    /\ serv' = NuevoAtender("V", cfg.b_extension, "fvv")
    /\ agenda' = Proceso(Tail(agenda), "serv")
    /\ pc' = [pc EXCEPT !["serv"] = "inicio"]
    /\ UNCHANGED <<cfg, cola_vehiculos, cola_peatones, vehiculo_id, peaton_id,
                   fase_actual, ciclo_numero, terminado, rng>>
    /\ Anotar

\* a block has ended and the loop stops on one of its three conditions
FaseVerdeFinExtension ==
    /\ Toca("fvv", "bloque")
    /\ LET motivo == Evaluar(tiempo_verde_total, LongV, EsperaMaximaPeatonal)
       IN  /\ motivo \in {"PRIORIDAD_PEATONAL", "COLA_VEHICULAR_BAJA",
                          "MAXIMO_ALCANZADO"}
           /\ registros' =
                 RegistrarDecision(registros, "FIN_EXTENSION", motivo,
                                   ValorFin(motivo, tiempo_verde_total, LongV,
                                            EsperaMaximaPeatonal),
                                   ciclo_numero, LongV, LongP)
    /\ now' = Ahora
    /\ agenda' = Retorno(Tail(agenda), "ctrl")
    /\ pc' = [pc EXCEPT !["fvv"] = "fin"]
    /\ extensiones' = 0
    /\ UNCHANGED <<cfg, cola_vehiculos, cola_peatones, vehiculo_id, peaton_id,
                   fase_actual, ciclo_numero, serv, tiempo_verde_total,
                   terminado, rng>>
    /\ Anotar

\* a block has ended and the while test fails: return tiempo_verde_total
FaseVerdeTope ==
    /\ Toca("fvv", "bloque")
    /\ Evaluar(tiempo_verde_total, LongV, EsperaMaximaPeatonal) = "TOPE"
    /\ now' = Ahora
    /\ agenda' = Retorno(Tail(agenda), "ctrl")
    /\ pc' = [pc EXCEPT !["fvv"] = "fin"]
    /\ extensiones' = 0
    /\ UNCHANGED <<cfg, cola_vehiculos, cola_peatones, vehiculo_id, peaton_id,
                   fase_actual, ciclo_numero, serv, tiempo_verde_total,
                   registros, terminado, rng>>
    /\ Anotar

\* fase_verde_vehicular_adaptativa has returned: vehicle amber
AdaptativoAmarilloVehicular ==
    /\ cfg.modo = "adaptativo"
    /\ Toca("ctrl", "verde_v")
    /\ now' = Ahora
    /\ fase_actual' = "AMARILLO_VEHICULAR"
    /\ registros' = RegistrarEvento(registros, "AMARILLO_VEHICULAR", cfg.amarillo,
                                    SinInfo, ciclo_numero, LongV, LongP)
    /\ agenda' = Timeout(Tail(agenda), cfg.amarillo, "ctrl")
    /\ pc' = [pc EXCEPT !["ctrl"] = "amarillo_v"]
    /\ UNCHANGED <<cfg, cola_vehiculos, cola_peatones, vehiculo_id, peaton_id,
                   ciclo_numero, serv, tiempo_verde_total, extensiones,
                   terminado, rng>>
    /\ Anotar

\* the amber timeout ends and the pedestrian phase is activated
AdaptativoVerdePeatonal ==
    /\ cfg.modo = "adaptativo"
    /\ Toca("ctrl", "amarillo_v")
    /\ LET d == DebeActivarFasePeatonal(LongP, EsperaMaximaPeatonal)
       IN  /\ d[1]
           /\ registros' =
                 RegistrarEstadoCola(
                     RegistrarEvento(registros, "VERDE_PEATONAL", cfg.g_p_fijo,
                                     InfoMotivo(d[2]), ciclo_numero, LongV, LongP),
                     "VERDE_PEATONAL", LongV, LongP)
    /\ now' = Ahora
    /\ fase_actual' = "VERDE_PEATONAL"
    /\ serv' = NuevoAtender("P", cfg.g_p_fijo, "ctrl")
    /\ agenda' = Proceso(Tail(agenda), "serv")
    /\ pc' = [pc EXCEPT !["ctrl"] = "verde_p", !["serv"] = "inicio"]
    /\ UNCHANGED <<cfg, cola_vehiculos, cola_peatones, vehiculo_id, peaton_id,
                   ciclo_numero, tiempo_verde_total, extensiones, terminado, rng>>
    /\ Anotar

\* the amber timeout ends and the pedestrian phase is skipped: the skip
\* decision, the snapshot that closes the cycle, and the next cycle
AdaptativoSaltarPeatonal ==
    /\ cfg.modo = "adaptativo"
    /\ Toca("ctrl", "amarillo_v")
    /\ LET d == DebeActivarFasePeatonal(LongP, EsperaMaximaPeatonal)
       IN  /\ ~d[1]
           /\ AdaptativoNuevoCiclo(
                 RegistrarEstadoCola(
                     RegistrarDecision(registros, "SALTAR_FASE_PEATONAL", d[2],
                                       <<LongP>>, ciclo_numero, LongV, LongP),
                     fase_actual, LongV, LongP))
    /\ now' = Ahora
    /\ UNCHANGED <<cfg, cola_vehiculos, cola_peatones, vehiculo_id, peaton_id,
                   serv, tiempo_verde_total, extensiones, terminado, rng>>
    /\ Anotar

\* variant: the pedestrian amber is recorded and takes no time
AdaptativoAmarilloPeatonal_SinEspera ==
    /\ cfg.modo = "adaptativo"
    /\ Toca("ctrl", "verde_p")
    /\ now' = Ahora
    /\ fase_actual' = "AMARILLO_PEATONAL"
    /\ registros' = RegistrarEvento(registros, "AMARILLO_PEATONAL", cfg.amarillo,
                                    SinInfo, ciclo_numero, LongV, LongP)
    /\ agenda' = Timeout(Tail(agenda), 0, "ctrl")
    /\ pc' = [pc EXCEPT !["ctrl"] = "amarillo_p"]
    /\ UNCHANGED <<cfg, cola_vehiculos, cola_peatones, vehiculo_id, peaton_id,
                   ciclo_numero, serv, tiempo_verde_total, extensiones,
                   terminado, rng>>
    /\ Anotar

\* atender_peatones has returned: pedestrian amber
AdaptativoAmarilloPeatonal ==
    /\ cfg.modo = "adaptativo"
    /\ Toca("ctrl", "verde_p")
    /\ now' = Ahora
    /\ fase_actual' = "AMARILLO_PEATONAL"
    /\ registros' = RegistrarEvento(registros, "AMARILLO_PEATONAL", cfg.amarillo,
                                    SinInfo, ciclo_numero, LongV, LongP)
    /\ agenda' = Timeout(Tail(agenda), cfg.amarillo, "ctrl")
    /\ pc' = [pc EXCEPT !["ctrl"] = "amarillo_p"]
    /\ UNCHANGED <<cfg, cola_vehiculos, cola_peatones, vehiculo_id, peaton_id,
                   ciclo_numero, serv, tiempo_verde_total, extensiones,
                   terminado, rng>>
    /\ Anotar

\* the amber timeout ends: the snapshot that closes the cycle, and the next cycle
AdaptativoFinCiclo ==
    /\ cfg.modo = "adaptativo"
    /\ Toca("ctrl", "amarillo_p")
    /\ now' = Ahora
    /\ AdaptativoNuevoCiclo(RegistrarEstadoCola(registros, fase_actual, LongV, LongP))
    /\ UNCHANGED <<cfg, cola_vehiculos, cola_peatones, vehiculo_id, peaton_id,
                   serv, tiempo_verde_total, extensiones, terminado, rng>>
    /\ Anotar

----------------------------------------------------------------------------
(* The run *)

Next ==
    \/ GenerarVehiculosInicio
    \/ GenerarVehiculosLlegada
    \/ GenerarPeatonesInicio
    \/ GenerarPeatonesLlegada
    \/ AtenderInicio
    \/ AtenderSondeo
    \/ AtenderDevolver
    \/ AtenderServir
    \/ AtenderCorte
    \/ AtenderCompletar
    \/ FijoInicio
    \/ FijoAmarilloVehicular
    \/ FijoVerdePeatonal
    \/ FijoAmarilloPeatonal
    \/ FijoFinCiclo
    \/ AdaptativoInicio
    \/ FaseVerdeInicial
    \/ FaseVerdeExtender
    \/ FaseVerdeFinExtension
    \/ FaseVerdeTope
    \/ AdaptativoAmarilloVehicular
    \/ AdaptativoVerdePeatonal
    \/ AdaptativoSaltarPeatonal
    \/ AdaptativoAmarilloPeatonal
    \/ AdaptativoFinCiclo
    \/ FinSimulacion

Spec == Init /\ [][Next]_vars

----------------------------------------------------------------------------
(* Two runs of simular_semaforo_fijo / simular_semaforo_adaptativo with the
   same seed and the same configuration, one after the other *)

\* the seeds random.seed(semilla) is given
Semillas == 0..MaxSemilla

InitDet == \E s \in Semillas : \E c \in Configuraciones(s) : Arranque(c)

\* the second call: random.seed(semilla) again, a new environment, new queues,
\* new registros, a new generator and a new controller
Reinicio ==
    /\ terminado
    /\ cfg.semilla # SinSemilla
    /\ corrida = 1
    /\ corrida' = 2
    /\ paso' = 0
    /\ rng' = cfg.semilla
    /\ now' = 0
    /\ agenda' = AgendaInicial
    /\ pc' = PcInicial
    /\ cola_vehiculos' = <<>>
    /\ cola_peatones' = <<>>
    /\ vehiculo_id' = 0
    /\ peaton_id' = 0
    /\ fase_actual' = "VERDE_VEHICULAR"
    /\ ciclo_numero' = 0
    /\ serv' = ServInactivo
    /\ tiempo_verde_total' = 0
    /\ extensiones' = 0
    /\ registros' = RegistrosVacios
    /\ terminado' = FALSE
    /\ UNCHANGED <<cfg, traza>>

NextDet == Next \/ Reinicio

SpecDet == InitDet /\ [][NextDet]_vars

----------------------------------------------------------------------------
(* Two runs with the same seed and the same configuration but for warmup *)

Warmups == 0..MaxWarmup

InitWarmup ==
    \E s \in Semillas : \E c \in Configuraciones(s) : \E w \in Warmups :
        Arranque([c EXCEPT !.warmup_time = w])

\* the second call, with a longer warm-up
ReinicioConWarmup ==
    /\ terminado
    /\ cfg.semilla # SinSemilla
    /\ corrida = 1
    /\ \E w \in Warmups :
          /\ w > cfg.warmup_time
          /\ cfg' = [cfg EXCEPT !.warmup_time = w]
    /\ corrida' = 2
    /\ paso' = 0
    /\ rng' = cfg.semilla
    /\ now' = 0
    /\ agenda' = AgendaInicial
    /\ pc' = PcInicial
    /\ cola_vehiculos' = <<>>
    /\ cola_peatones' = <<>>
    /\ vehiculo_id' = 0
    /\ peaton_id' = 0
    /\ fase_actual' = "VERDE_VEHICULAR"
    /\ ciclo_numero' = 0
    /\ serv' = ServInactivo
    /\ tiempo_verde_total' = 0
    /\ extensiones' = 0
    /\ registros' = RegistrosVacios
    /\ terminado' = FALSE
    /\ UNCHANGED traza

NextWarmup == Next \/ ReinicioConWarmup

SpecWarmup == InitWarmup /\ [][NextWarmup]_vars

----------------------------------------------------------------------------
(* One run whose durations may be zero *)

InitDuraciones ==
    \E c \in {ConfFijo(3, 2, 1, 0, SinSemilla),
               ConfAdaptativo(2, 4, 1, 1, 2, 1, 2, 1, 0, SinSemilla)}
                  \cup ConfiguracionesSinDuracion :
        Arranque(c)

SpecDuraciones == InitDuraciones /\ [][Next]_vars

----------------------------------------------------------------------------
(* One run with any arguments *)

InitLibre == \E c \in ConfiguracionesLibres : Arranque(c)

NextLibre ==
    \/ Next
    \/ GenerarVehiculosFalla
    \/ GenerarPeatonesFalla
    \/ Aborto

SpecLibre == InitLibre /\ [][NextLibre]_vars

----------------------------------------------------------------------------
(* One run in which timers of different processes fall due together *)

InitEmpate == \E c \in ConfiguracionesEmpate : Arranque(c)

SpecEmpate == InitEmpate /\ [][Next]_vars

----------------------------------------------------------------------------
(* One run with a warm-up, in which entities arrive in every phase *)

InitLlegadas ==
    \E c \in ConfiguracionesEmpate : \E w \in Warmups :
        Arranque([c EXCEPT !.warmup_time = w])

SpecLlegadas == InitLlegadas /\ [][Next]_vars

----------------------------------------------------------------------------
(* One run of simular_semaforo_adaptativo in which up to two pedestrians
   arrive, early or late, and wait little or long against w_max *)

ConfiguracionesPeatonales ==
    { [ConfAdaptativo(2, 4, 1, 1, 2, w, 2, 1, 0, SinSemilla)
          EXCEPT !.max_p = MaxPeat + 1, !.llegadas = {1, 6}] : w \in {1, 5} }

InitPeatonal == \E c \in ConfiguracionesPeatonales : Arranque(c)

----------------------------------------------------------------------------
(* Scenario B: one run of simular_semaforo_adaptativo *)

InitB == Arranque(EscenarioB)

NextB ==
    \/ GenerarVehiculosInicio
    \/ GenerarVehiculosLlegada
    \/ GenerarPeatonesInicio
    \/ GenerarPeatonesLlegada
    \/ AtenderInicio
    \/ AtenderSondeo
    \/ AtenderDevolver
    \/ AtenderServir
    \/ AtenderCorte
    \/ AtenderCompletar
    \/ AdaptativoInicio
    \/ FaseVerdeInicial
    \/ FaseVerdeExtender
    \/ FaseVerdeFinExtension
    \/ FaseVerdeTope
    \/ AdaptativoAmarilloVehicular
    \/ AdaptativoVerdePeatonal
    \/ AdaptativoSaltarPeatonal
    \/ AdaptativoAmarilloPeatonal
    \/ AdaptativoFinCiclo
    \/ FinSimulacion

SpecB == InitB /\ [][NextB]_vars

SpecPeatonal == InitPeatonal /\ [][NextB]_vars

----------------------------------------------------------------------------
(* One run of simular_semaforo_adaptativo for each pair of thresholds t_p >= 1
   and w_max > 0 of a small grid; up to three pedestrians arrive, together or
   apart, and one vehicle *)

ConfiguracionesUmbrales ==
    { [ConfAdaptativo(2, 4, 1, 1, tp, w, 2, 1, 0, SinSemilla)
          EXCEPT !.max_v = 1, !.max_p = 3, !.llegadas = {1, 6}, !.servicios = {1, 3}] :
      tp \in {1, 2, 3}, w \in {1, 5} }

InitUmbrales == \E c \in ConfiguracionesUmbrales : Arranque(c)

SpecUmbrales == InitUmbrales /\ [][NextB]_vars

----------------------------------------------------------------------------
(* comparar_controladores: simular_semaforo_fijo and then
   simular_semaforo_adaptativo with the same seed, rates, g_p and amber; here
   the adaptive controller is given g_min = g_v, and g_max = g_v or more *)

ConfiguracionesGemelas(semilla) ==
    { [ConfFijo(g_v, 2, 1, 0, semilla)
          EXCEPT !.max_v = MaxVeh + 1, !.max_p = MaxPeat + 3, !.llegadas = {1, 2, 3}] :
      g_v \in {2, 3} }

\* the arguments of the second call: those of the first but for the controller
GemeloAdaptativo(c, g_max, b, t_v, t_p, w_max) ==
    [c EXCEPT !.modo = "adaptativo", !.g_v_fijo = 0, !.g_min = c.g_v_fijo,
              !.g_max = g_max, !.b_extension = b, !.t_v = t_v, !.t_p = t_p,
              !.w_max = w_max]

InitGemelos ==
    \E s \in Semillas : \E c \in ConfiguracionesGemelas(s) : Arranque(c)

\* the second call: random.seed(semilla) again, a new environment, new queues,
\* new registros, a new generator and the adaptive controller
ReinicioGemelo ==
    /\ terminado
    /\ cfg.semilla # SinSemilla
    /\ corrida = 1
    /\ cfg.modo = "fijo"
    /\ \E g_max \in {cfg.g_v_fijo, cfg.g_v_fijo + 1} : \E t_p \in {0, 1, 2} :
          \E w_max \in {1, 5} :
             cfg' = GemeloAdaptativo(cfg, g_max, 1, 1, t_p, w_max)
    /\ corrida' = 2
    /\ paso' = 0
    /\ rng' = cfg.semilla
    /\ now' = 0
    /\ agenda' = AgendaInicial
    /\ pc' = PcInicial
    /\ cola_vehiculos' = <<>>
    /\ cola_peatones' = <<>>
    /\ vehiculo_id' = 0
    /\ peaton_id' = 0
    /\ fase_actual' = "VERDE_VEHICULAR"
    /\ ciclo_numero' = 0
    /\ serv' = ServInactivo
    /\ tiempo_verde_total' = 0
    /\ extensiones' = 0
    /\ registros' = RegistrosVacios
    /\ terminado' = FALSE
    /\ UNCHANGED traza

NextGemelos == Next \/ ReinicioGemelo

SpecGemelos == InitGemelos /\ [][NextGemelos]_vars

----------------------------------------------------------------------------
(* Vocabulary of the properties *)

Rango(s) == {s[i] : i \in 1..Len(s)}

Fijo == cfg.modo = "fijo"
Adaptativo == cfg.modo = "adaptativo"

Eventos == registros.eventos_semaforo
Decisiones == registros.decisiones_adaptativas
ServiciosDe(clase) ==
    IF clase = "V" THEN registros.servicios_vehiculos
    ELSE registros.servicios_peatones

\* every stream is complete: nothing was suppressed by the warm-up
SinWarmup == cfg.warmup_time = 0

\* an entity is popped and neither served nor put back
EnServicio == pc["serv"] \in {"get", "servicio"}

VerdeDe(clase) == IF clase = "V" THEN "VERDE_VEHICULAR" ELSE "VERDE_PEATONAL"

FasesVerdesDe(clase) ==
    IF clase = "V"
    THEN {"VERDE_VEHICULAR", "VERDE_VEHICULAR_INICIAL", "VERDE_VEHICULAR_EXTENSION"}
    ELSE {"VERDE_PEATONAL"}

Amarillo == fase_actual \in {"AMARILLO_VEHICULAR", "AMARILLO_PEATONAL"}

\* the pending event of a process
EventoDe(proc) == CHOOSE e \in Rango(agenda) : e.proc = proc

\* the longest wait among the queued pedestrians, at the clock of the state
EsperaPeatonalActual ==
    IF Len(cola_peatones) = 0 THEN 0
    ELSE SeqMax([i \in 1..Len(cola_peatones) |->
                    now - cola_peatones[i].tiempo_llegada])

DuracionCicloFijo == cfg.g_v_fijo + cfg.amarillo + cfg.g_p_fijo + cfg.amarillo

----------------------------------------------------------------------------
(* C1 *)

\* C1: an entity is in service only during the green of its own class; while
\* a phase is amber no service process exists (nothing is popped, in service
\* or completing); a popped entity's service is scheduled to end by the end
\* of the phase, and every service record lies inside one recorded green
\* phase of its class.
C1_ServicioSoloEnVerde ==
    /\ EnServicio =>
          /\ fase_actual = VerdeDe(serv.clase)
          /\ serv.ent # NADIE
          /\ now <= serv.tiempo_fin
          /\ pc["serv"] = "servicio" => EventoDe("serv").t <= serv.tiempo_fin
    /\ Amarillo => pc["serv"] = "fin" /\ serv = ServInactivo
    /\ SinWarmup =>
          \A clase \in {"V", "P"} : \A r \in Rango(ServiciosDe(clase)) :
             \E e \in Rango(Eventos) :
                /\ e.fase \in FasesVerdesDe(clase)
                /\ e.tiempo <= r.tiempo_inicio_servicio
                /\ r.tiempo_fin_servicio <= e.tiempo + e.duracion

\* a pedestrian is being served under the adaptive controller after a
\* vehicle was served
C1_Testigo ==
    /\ Adaptativo
    /\ pc["serv"] = "servicio"
    /\ serv.clase = "P"
    /\ registros.servicios_vehiculos # <<>>

----------------------------------------------------------------------------
(* C2 *)

\* C2: under the fixed controller cycle k starts at (k-1)*(g_v + amber + g_p
\* + amber): every recorded vehicle green and every running vehicle service
\* loop starts at that clock.
C2_CicloFijoConstante ==
    Fijo =>
       /\ \A e \in Rango(Eventos) :
             e.fase = "VERDE_VEHICULAR" =>
                e.tiempo = (e.ciclo - 1) * DuracionCicloFijo
       /\ (pc["serv"] \notin {"fin", "inicio"} /\ serv.clase = "V") =>
             serv.tiempo_inicio = (ciclo_numero - 1) * DuracionCicloFijo

\* the third cycle starts after a vehicle was served and while one is queued
C2_Testigo ==
    /\ Fijo
    /\ ciclo_numero = 3
    /\ fase_actual = "VERDE_VEHICULAR"
    /\ registros.servicios_vehiculos # <<>>
    /\ cola_vehiculos # <<>>

----------------------------------------------------------------------------
(* C3 *)

\* C3: under the adaptive controller the cumulative vehicle green of a cycle
\* stays within [g_min, g_max], in the loop and after it, and so does every
\* recorded tiempo_total.
C3_VerdeAcotado ==
    Adaptativo =>
       /\ (ciclo_numero >= 1 /\ ~(ciclo_numero = 1 /\ pc["fvv"] = "inicio")) =>
             /\ cfg.g_min <= tiempo_verde_total
             /\ tiempo_verde_total <= cfg.g_max
       /\ \A e \in Rango(Eventos) :
             e.fase \in {"VERDE_VEHICULAR_INICIAL", "VERDE_VEHICULAR_EXTENSION"} =>
                /\ cfg.g_min <= e.info.tiempo_total
                /\ e.info.tiempo_total <= cfg.g_max

\* the vehicle phase has ended after extensions, below the cap, which the
\* next block would have exceeded
C3_Testigo ==
    /\ Adaptativo
    /\ fase_actual = "AMARILLO_VEHICULAR"
    /\ tiempo_verde_total > cfg.g_min
    /\ tiempo_verde_total < cfg.g_max
    /\ Decisiones # <<>>
    /\ Decisiones[Len(Decisiones)].motivo = "MAXIMO_ALCANZADO"

----------------------------------------------------------------------------
(* C4 *)

\* the vehicle green of the adaptive controller: the initial block and the
\* extension loop
EnVerdeVehicular == Adaptativo /\ pc["ctrl"] = "verde_v" /\ pc["fvv"] = "bloque"

\* this step is an evaluation of the extension loop
EvaluaAhora ==
    /\ Toca("fvv", "bloque")
    /\ tiempo_verde_total < cfg.g_max

\* C4: once a queued pedestrian's wait exceeds w_max during the vehicle
\* green of a cycle, it stays above w_max for the rest of that green, no step
\* extends the green (no EXTENSION decision, no extension phase, cumulative
\* green unchanged), and the next evaluation ends the loop with the decision
\* FIN_EXTENSION / PRIORIDAD_PEATONAL.
C4_PrioridadPeatonal ==
    [][ (EnVerdeVehicular /\ EsperaPeatonalActual > cfg.w_max) =>
           /\ tiempo_verde_total' = tiempo_verde_total
           /\ extensiones' <= extensiones
           /\ \A i \in (Len(Decisiones) + 1)..Len(Decisiones') :
                 Decisiones'[i].tipo # "EXTENSION"
           /\ \A i \in (Len(Eventos) + 1)..Len(Eventos') :
                 Eventos'[i].fase # "VERDE_VEHICULAR_EXTENSION"
           /\ EnVerdeVehicular' => EsperaPeatonalActual' > cfg.w_max
           /\ EvaluaAhora =>
                 /\ pc'["fvv"] = "fin"
                 /\ Len(Decisiones') = Len(Decisiones) + 1
                 /\ Decisiones'[Len(Decisiones')].tipo = "FIN_EXTENSION"
                 /\ Decisiones'[Len(Decisiones')].motivo = "PRIORIDAD_PEATONAL"
      ]_vars

\* the loop has just stopped for the pedestrians although the vehicle queue
\* reached the threshold and one more block fitted under the cap
C4_Testigo ==
    /\ Adaptativo
    /\ pc["fvv"] = "fin"
    /\ pc["ctrl"] = "verde_v"
    /\ Decisiones # <<>>
    /\ Decisiones[Len(Decisiones)].motivo = "PRIORIDAD_PEATONAL"
    /\ Decisiones[Len(Decisiones)].ciclo = ciclo_numero
    /\ Decisiones[Len(Decisiones)].cola_v >= cfg.t_v
    /\ tiempo_verde_total + cfg.b_extension <= cfg.g_max

----------------------------------------------------------------------------
(* C5 *)

\* C5: under the adaptive controller a pedestrian green is never started
\* when, at its decision point, the pedestrian queue is empty (so that no
\* pedestrian waits longer than w_max): every recorded VERDE_PEATONAL found a
\* pedestrian queued, and the phase is never VERDE_PEATONAL after a decision
\* taken on an empty queue.
C5_SaltoCorrecto ==
    (Adaptativo /\ SinWarmup) =>
       \A e \in Rango(Eventos) : e.fase = "VERDE_PEATONAL" => e.cola_p > 0

----------------------------------------------------------------------------
(* C6 *)

\* C6: first come, first served: of two served entities of a class, the one
\* that arrived earlier started its service earlier.
C6_FCFS ==
    \A clase \in {"V", "P"} :
       \A r1 \in Rango(ServiciosDe(clase)) : \A r2 \in Rango(ServiciosDe(clase)) :
          r1.tiempo_llegada < r2.tiempo_llegada =>
             r1.tiempo_inicio_servicio < r2.tiempo_inicio_servicio

----------------------------------------------------------------------------
(* C7 *)

\* C7: every service record has wait = service start - arrival >= 0 and
\* service end = service start + service duration, and the wait held by a
\* running service is the clock of its pop minus the arrival.
C7_EsperaNoNegativa ==
    /\ \A clase \in {"V", "P"} : \A r \in Rango(ServiciosDe(clase)) :
          /\ r.tiempo_espera = r.tiempo_inicio_servicio - r.tiempo_llegada
          /\ r.tiempo_espera >= 0
          /\ r.tiempo_fin_servicio = r.tiempo_inicio_servicio + r.tiempo_servicio
    /\ pc["serv"] = "servicio" =>
          /\ serv.tiempo_espera >= 0
          /\ serv.tiempo_espera =
                EventoDe("serv").t - serv.tiempo_servicio - serv.ent.tiempo_llegada

\* vehicle 1 is served in a later cycle than it arrived in, after vehicle 2:
\* it had been popped and put back behind vehicle 2
C7_Testigo ==
    \E r1 \in Rango(registros.servicios_vehiculos) :
    \E r2 \in Rango(registros.servicios_vehiculos) :
       /\ r1.id = 1 /\ r2.id = 2
       /\ r2.tiempo_inicio_servicio < r1.tiempo_inicio_servicio
       /\ r1.ciclo >= 2

----------------------------------------------------------------------------
(* C10 *)

\* C10: once the vehicle amber of a cycle has started, exactly one
\* FIN_EXTENSION decision of that cycle is on record.
C10_FinExtensionRegistrado ==
    (Adaptativo /\ SinWarmup /\ fase_actual = "AMARILLO_VEHICULAR") =>
       Cardinality({i \in 1..Len(Decisiones) :
                       /\ Decisiones[i].tipo = "FIN_EXTENSION"
                       /\ Decisiones[i].ciclo = ciclo_numero}) = 1

----------------------------------------------------------------------------
----------------------------------------------------------------------------
(* C9 *)

\* the configuration of Scenario B, in ticks of half a second
EsEscenarioB ==
    /\ Adaptativo
    /\ cfg.g_min = 40 /\ cfg.g_max = 120 /\ cfg.b_extension = 10 /\ cfg.t_v = 5

\* the longest wait among the queued pedestrians at the clock t
EsperaPeatonalEn(t) ==
    IF Len(cola_peatones) = 0 THEN 0
    ELSE SeqMax([i \in 1..Len(cola_peatones) |-> t - cola_peatones[i].tiempo_llegada])

\* the records of the extension loop of cycle k: its decisions, its events
DecisionesDeExtension(k) ==
    {i \in 1..Len(Decisiones) :
        /\ Decisiones[i].ciclo = k
        /\ Decisiones[i].tipo \in {"EXTENSION", "FIN_EXTENSION"}}
ExtensionesDe(k) ==
    {i \in 1..Len(Eventos) :
        Eventos[i].ciclo = k /\ Eventos[i].fase = "VERDE_VEHICULAR_EXTENSION"}
InicioVerdeDe(k) ==
    {Eventos[i].tiempo : i \in {j \in 1..Len(Eventos) :
        Eventos[j].ciclo = k /\ Eventos[j].fase = "VERDE_VEHICULAR_INICIAL"}}

\* at every decision point of cycle k the vehicle queue held at least 5 and
\* the loop did not stop for a pedestrian's wait
DemandaSostenida(k) ==
    \A i \in DecisionesDeExtension(k) :
        /\ Decisiones[i].cola_v >= 5
        /\ Decisiones[i].motivo # "PRIORIDAD_PEATONAL"

\* C9: in Scenario B (g_min = 20 s, g_max = 60 s, b = 5 s, t_v = 5) every
\* decision point that finds at least 5 vehicles queued and no queued
\* pedestrian waiting longer than w_max extends the green by one block of 5 s
\* without passing 60 s; and a cycle in which that was so at every decision
\* point has exactly 8 extensions, its cumulative green going 25, 30, ..., 60 s,
\* its amber starting exactly 60 s after its VERDE_VEHICULAR_INICIAL; the
\* cumulative green never exceeds 60 s.
C9_EscenarioB ==
    /\ [][ (EsEscenarioB /\ EvaluaAhora /\ LongV >= 5
                /\ EsperaPeatonalEn(Ahora) <= cfg.w_max) =>
              /\ extensiones' = extensiones + 1
              /\ tiempo_verde_total' = tiempo_verde_total + 10
              /\ tiempo_verde_total' <= 120
              /\ pc'["fvv"] = "bloque"
         ]_vars
    /\ [] (EsEscenarioB /\ SinWarmup =>
             /\ tiempo_verde_total <= 120
             /\ \A a \in 1..Len(Eventos) :
                   (Eventos[a].fase = "AMARILLO_VEHICULAR"
                        /\ DemandaSostenida(Eventos[a].ciclo)) =>
                      LET k == Eventos[a].ciclo
                      IN  /\ Cardinality(ExtensionesDe(k)) = 8
                          /\ {Eventos[i].info.tiempo_total : i \in ExtensionesDe(k)}
                                = {40 + 10 * n : n \in 1..8}
                          /\ {Eventos[i].info.extension : i \in ExtensionesDe(k)}
                                = 1..8
                          /\ \A i \in ExtensionesDe(k) : Eventos[i].duracion = 10
                          /\ InicioVerdeDe(k) = {Eventos[a].tiempo - 120})

\* the amber of a cycle has started after 8 extensions, the queue holding
\* exactly 5 vehicles at one of the decision points
C9_Testigo ==
    /\ EsEscenarioB
    /\ fase_actual = "AMARILLO_VEHICULAR"
    /\ Cardinality(ExtensionesDe(ciclo_numero)) = 8
    /\ DemandaSostenida(ciclo_numero)
    /\ \E i \in DecisionesDeExtension(ciclo_numero) : Decisiones[i].cola_v = 5
    /\ Len(registros.servicios_vehiculos) > 0
    /\ now = 120

----------------------------------------------------------------------------
(* C11 *)

\* a process has ended with an exception
Fallido(p) == pc[p] = "error"

\* the skip decisions recorded for cycle k
SaltosDe(k) ==
    {i \in 1..Len(Decisiones) :
        Decisiones[i].ciclo = k /\ Decisiones[i].tipo = "SALTAR_FASE_PEATONAL"}

\* C11: in Scenario C (adaptive controller, lambda_p = 0) the run goes on to
\* the horizon, no pedestrian arrives, no pedestrian green or amber occurs,
\* and every cycle that is over has exactly one skip decision, with the
\* motive SIN_PEATONES.
C11_EscenarioC ==
    (Adaptativo /\ cfg.lambda_p = 0 /\ SinWarmup) =>
        /\ \A p \in Procesos : ~Fallido(p)
        /\ terminado => now = cfg.tiempo_sim
        /\ peaton_id = 0
        /\ fase_actual \notin {"VERDE_PEATONAL", "AMARILLO_PEATONAL"}
        /\ \A i \in 1..Len(Eventos) :
              Eventos[i].fase \notin {"VERDE_PEATONAL", "AMARILLO_PEATONAL"}
        /\ \A k \in 1..(ciclo_numero - 1) :
              /\ Cardinality(SaltosDe(k)) = 1
              /\ \A i \in SaltosDe(k) : Decisiones[i].motivo = "SIN_PEATONES"

----------------------------------------------------------------------------
(* C12 *)

\* the phase records of the fixed cycle: durations and offsets in the period
DuracionesA == <<60, 6, 30, 6>>
DesfasesA == <<0, 60, 66, 96>>

\* C12: in Scenario A (fixed controller, g_v = 30 s, g_p = 15 s, amber = 3 s,
\* zero arrival rates) the run goes on to the horizon, nothing arrives, is
\* popped or served, the phase records carry the durations 30, 3, 15, 3 s in
\* that order with a period of 51 s, and when the run is over the cycle
\* under way is the one the horizon falls in.
C12_EscenarioA ==
    (Fijo /\ cfg.lambda_v = 0 /\ cfg.lambda_p = 0 /\ SinWarmup
          /\ cfg.g_v_fijo = 60 /\ cfg.g_p_fijo = 30 /\ cfg.amarillo = 6) =>
        /\ \A p \in Procesos : ~Fallido(p)
        /\ terminado =>
              /\ now = cfg.tiempo_sim
              /\ ciclo_numero = ((cfg.tiempo_sim - 1) \div 102) + 1
        /\ vehiculo_id = 0 /\ peaton_id = 0
        /\ serv.ent = NADIE
        /\ ServiciosDe("V") = <<>> /\ ServiciosDe("P") = <<>>
        /\ \A i \in 1..Len(Eventos) :
              /\ Eventos[i].duracion = DuracionesA[((i - 1) % 4) + 1]
              /\ Eventos[i].tiempo = 102 * ((i - 1) \div 4) + DesfasesA[((i - 1) % 4) + 1]

----------------------------------------------------------------------------
(* C13 *)

\* the configuration is one the constructors are meant to accept
ConfValida(c) ==
    /\ c.lambda_v > 0 /\ c.lambda_p > 0
    /\ c.amarillo >= 0 /\ c.g_p_fijo >= 0 /\ c.warmup_time >= 0
    /\ c.tiempo_sim > c.warmup_time
    /\ c.modo = "fijo" => c.g_v_fijo >= 0
    /\ c.modo = "adaptativo" =>
          /\ c.g_min >= 0 /\ c.g_min <= c.g_max
          /\ c.b_extension > 0 /\ c.w_max > 0
          /\ c.t_v >= 0 /\ c.t_p >= 0

\* C13: with an invalid configuration nothing is started: no process exists,
\* no event is scheduled, no record is emitted, no cycle begins.
C13_ConfiguracionValidada ==
    ~ConfValida(cfg) =>
        /\ agenda = <<>>
        /\ \A p \in Procesos : pc[p] = "fin"
        /\ registros = RegistrosVacios
        /\ ciclo_numero = 0

----------------------------------------------------------------------------
(* C14 *)

\* the phases of the fixed cycle, in order, and their configured durations
FasesFijas ==
    <<"VERDE_VEHICULAR", "AMARILLO_VEHICULAR", "VERDE_PEATONAL", "AMARILLO_PEATONAL">>
DuracionesFijas == <<cfg.g_v_fijo, cfg.amarillo, cfg.g_p_fijo, cfg.amarillo>>

\* C14: under the fixed controller the phase records follow the order vehicle
\* green, vehicle amber, pedestrian green, pedestrian amber, cycle after
\* cycle, with nothing skipped, repeated or reordered, each with its
\* configured duration, each starting exactly when the previous one has
\* lasted its duration; the phase under way is the last one recorded and has
\* not outlasted its duration.
C14_SecuenciaFija ==
    (Fijo /\ SinWarmup) =>
        /\ \A i \in 1..Len(Eventos) :
              /\ Eventos[i].fase = FasesFijas[((i - 1) % 4) + 1]
              /\ Eventos[i].duracion = DuracionesFijas[((i - 1) % 4) + 1]
              /\ Eventos[i].ciclo = ((i - 1) \div 4) + 1
              /\ i = 1 => Eventos[i].tiempo = 0
              /\ i > 1 => Eventos[i].tiempo
                             = Eventos[i - 1].tiempo + Eventos[i - 1].duracion
        /\ Eventos # <<>> =>
              /\ fase_actual = Eventos[Len(Eventos)].fase
              /\ ciclo_numero = Eventos[Len(Eventos)].ciclo
              /\ now <= Eventos[Len(Eventos)].tiempo + Eventos[Len(Eventos)].duracion

\* two whole cycles have gone by, with services of both classes, a vehicle
\* green that began on an empty queue and a pedestrian green that began
\* while vehicles waited
C14_Testigo ==
    /\ Fijo /\ SinWarmup
    /\ Len(Eventos) > 8
    /\ ServiciosDe("V") # <<>>
    /\ ServiciosDe("P") # <<>>
    /\ \E i \in 1..Len(Eventos) : Eventos[i].cola_v = 0 /\ Eventos[i].fase = "VERDE_VEHICULAR"
    /\ \E i \in 1..Len(Eventos) : Eventos[i].cola_v > 0 /\ Eventos[i].fase = "VERDE_PEATONAL"

----------------------------------------------------------------------------
(* C15 *)

Pendientes(ag, antes) == SelectSeq(ag, LAMBDA e : e \in Rango(antes))

----------------------------------------------------------------------------
(* C16 *)

\* the record streams, and the emission time of a record of each
Flujos ==
    {"llegadas_vehiculos", "llegadas_peatones", "eventos_semaforo",
     "servicios_vehiculos", "servicios_peatones", "estado_colas",
     "decisiones_adaptativas"}
Emision(f, r) ==
    IF f \in {"servicios_vehiculos", "servicios_peatones"}
    THEN r.tiempo_fin_servicio ELSE r.tiempo

----------------------------------------------------------------------------
(* C17 *)

\* what a state shows but for the records
Trayectoria(f) ==
    [now |-> f.now, agenda |-> f.agenda, pc |-> f.pc,
     cola_vehiculos |-> f.cola_vehiculos, cola_peatones |-> f.cola_peatones,
     vehiculo_id |-> f.vehiculo_id, peaton_id |-> f.peaton_id,
     fase_actual |-> f.fase_actual, ciclo_numero |-> f.ciclo_numero,
     serv |-> f.serv, tiempo_verde_total |-> f.tiempo_verde_total,
     extensiones |-> f.extensiones, terminado |-> f.terminado, rng |-> f.rng]

\* the records of the stream f of reg emitted at or after w
Desde(reg, f, w) == SelectSeq(reg[f], LAMBDA r : Emision(f, r) >= w)

\* C17: of two runs with the same seed and configuration but for the
\* warm-up, the one with the longer warm-up goes, step by step, through the
\* same clock, pending events, process positions, queues, entity ids,
\* controller phase and counters, service in progress and generator state
\* as the other, and ends with it; after each step every stream of its
\* records is the other run's stream restricted to the records emitted at
\* or after the longer warm-up.
C17_WarmupNoInterfiere ==
    corrida = 2 =>
        /\ paso <= Len(traza)
        /\ terminado <=> paso = Len(traza)
        /\ paso > 0 =>
              /\ Trayectoria(Foto) = Trayectoria(traza[paso])
              /\ \A f \in Flujos :
                    registros[f] = Desde(traza[paso].registros, f, cfg.warmup_time)

\* the second run is over; its warm-up hid phase records and a vehicle's
\* arrival that the first run recorded, and kept a later arrival and a service
C17_Testigo ==
    /\ corrida = 2
    /\ terminado
    /\ paso = Len(traza)
    /\ cfg.warmup_time > 1
    /\ Len(registros.servicios_vehiculos) > 0
    /\ Len(registros.eventos_semaforo) < Len(traza[paso].registros.eventos_semaforo)
    /\ Len(registros.llegadas_vehiculos) > 0
    /\ Len(registros.llegadas_vehiculos) < Len(traza[paso].registros.llegadas_vehiculos)

----------------------------------------------------------------------------
(* C18 *)

\* the step appends exactly one record to the stream f, emitted now
UnoMas(f) ==
    /\ Len(registros'[f]) = Len(registros[f]) + 1
    /\ Emision(f, registros'[f][Len(registros'[f])]) = now'
UltimoDe(f) == registros'[f][Len(registros'[f])]

\* the step is a step of the run under way
PasoDeLaCorrida == ~terminado /\ ~terminado' /\ corrida' = corrida

\* what the step must record once the warm-up is over
\* an arrival
RegistraLlegadas ==
    /\ vehiculo_id' # vehiculo_id =>
          UnoMas("llegadas_vehiculos") /\ UltimoDe("llegadas_vehiculos").id = vehiculo_id'
    /\ peaton_id' # peaton_id =>
          UnoMas("llegadas_peatones") /\ UltimoDe("llegadas_peatones").id = peaton_id'
\* a phase start
RegistraFases ==
    /\ (fase_actual' # fase_actual /\ ~(Adaptativo /\ fase_actual' = "VERDE_VEHICULAR")) =>
          UnoMas("eventos_semaforo") /\ UltimoDe("eventos_semaforo").fase = fase_actual'
    /\ (Fijo /\ ciclo_numero' # ciclo_numero) =>
          UnoMas("eventos_semaforo") /\ UltimoDe("eventos_semaforo").fase = "VERDE_VEHICULAR"
    /\ (Adaptativo /\ pc["fvv"] = "inicio" /\ pc'["fvv"] = "bloque") =>
          /\ UnoMas("eventos_semaforo")
          /\ UltimoDe("eventos_semaforo").fase = "VERDE_VEHICULAR_INICIAL"
    /\ (Adaptativo /\ extensiones' = extensiones + 1) =>
          /\ UnoMas("eventos_semaforo")
          /\ UltimoDe("eventos_semaforo").fase = "VERDE_VEHICULAR_EXTENSION"
\* a decision of the adaptive controller: extend, stop extending, skip
RegistraDecisiones ==
    /\ (Adaptativo /\ extensiones' = extensiones + 1) =>
          UnoMas("decisiones_adaptativas")
             /\ UltimoDe("decisiones_adaptativas").tipo = "EXTENSION"
    /\ (Adaptativo /\ pc["fvv"] = "bloque" /\ pc'["fvv"] = "fin") =>
          UnoMas("decisiones_adaptativas")
             /\ UltimoDe("decisiones_adaptativas").tipo = "FIN_EXTENSION"
    /\ (Adaptativo /\ pc["ctrl"] = "amarillo_v" /\ ciclo_numero' # ciclo_numero) =>
          UnoMas("decisiones_adaptativas")
             /\ UltimoDe("decisiones_adaptativas").tipo = "SALTAR_FASE_PEATONAL"

\* C18: every record of every stream is emitted at a clock >= warmup, and a
\* step taken while the clock is < warmup appends none; a step taken at a
\* clock >= warmup records the arrival, the phase start and the adaptive
\* decision (extend, stop extending, skip the pedestrian phase) it makes;
\* the end of a service is recorded if and only if the clock is then
\* >= warmup, also when the service started before.
C18_SupresionEnWarmup ==
    /\ [] (\A f \in Flujos : \A i \in 1..Len(registros[f]) :
              Emision(f, registros[f][i]) >= cfg.warmup_time)
    /\ [][ PasoDeLaCorrida =>
              /\ now' < cfg.warmup_time => registros' = registros
              /\ now' >= cfg.warmup_time =>
                    RegistraLlegadas /\ RegistraFases /\ RegistraDecisiones
              /\ (pc["serv"] = "servicio" /\ serv' # serv) =>
                    LET f == IF serv.clase = "V" THEN "servicios_vehiculos"
                             ELSE "servicios_peatones"
                    IN  IF now' >= cfg.warmup_time
                        THEN UnoMas(f) /\ UltimoDe(f).id = serv.ent.id
                        ELSE registros'[f] = registros[f]
         ]_vars

----------------------------------------------------------------------------
(* C19: termination at the horizon *)

PrimerasFases == {"VERDE_VEHICULAR", "VERDE_VEHICULAR_INICIAL"}

\* the ids of the entities of a class that are queued or in service
PendientesDe(clase) ==
    {e.id : e \in Rango(IF clase = "V" THEN cola_vehiculos ELSE cola_peatones)}
        \cup (IF EnServicio /\ serv.clase = clase /\ serv.ent # NADIE
              THEN {serv.ent.id} ELSE {})

\* C19: under every valid configuration the run ends at the horizon: the clock
\* never passes it and stands on it once env.run has returned; the controller
\* does not start two cycles at one clock value (a loop that does so once does
\* so for ever, since nothing else can run before the clock moves); the
\* entities queued or in service have no service record; and no record is
\* stamped later than the horizon.
C19_TerminaEnElHorizonte ==
    ConfValida(cfg) =>
        /\ now <= cfg.tiempo_sim
        /\ terminado => now = cfg.tiempo_sim
        /\ \A i, j \in 1..Len(Eventos) :
              (/\ i < j
               /\ Eventos[i].fase \in PrimerasFases
               /\ Eventos[j].fase \in PrimerasFases)
                  => Eventos[i].tiempo < Eventos[j].tiempo
        /\ \A clase \in {"V", "P"} :
              \A r \in Rango(ServiciosDe(clase)) : r.id \notin PendientesDe(clase)
        /\ \A f \in Flujos : \A i \in 1..Len(registros[f]) :
              Emision(f, registros[f][i]) <= cfg.tiempo_sim

----------------------------------------------------------------------------
(* C20: entity conservation *)

ColaDeClase(clase) == IF clase = "V" THEN cola_vehiculos ELSE cola_peatones
CreadasDe(clase) == IF clase = "V" THEN vehiculo_id ELSE peaton_id
LlegadasDe(clase) ==
    IF clase = "V" THEN registros.llegadas_vehiculos ELSE registros.llegadas_peatones

\* the entity a service loop holds: taken from the queue and neither served
\* nor put back yet
EnManoDe(clase) ==
    IF EnServicio /\ serv.clase = clase THEN {serv.ent} ELSE {}

IdsDe(entidades) == {e.id : e \in entidades}

\* C20: of each class, the entities created so far (ids 1..n) are each in one
\* place only: once in the queue of their class, or held by the service loop
\* of their class, or served; none is twice in the queue, lost, or elsewhere;
\* so arrivals = queue length + in service + served; no id has two service
\* records; wherever an entity is, it carries the clock of its arrival, and
\* the entity that is put back is the one that was taken, unchanged.
C20_Conservacion ==
    /\ [](\A clase \in {"V", "P"} :
          LET cola == ColaDeClase(clase)
              enCola == IdsDe(Rango(cola))
              enMano == IdsDe(EnManoDe(clase))
              servidas == IdsDe(Rango(ServiciosDe(clase)))
          IN  /\ \A i, j \in 1..Len(cola) : i # j => cola[i].id # cola[j].id
              /\ \A i, j \in 1..Len(ServiciosDe(clase)) :
                    i # j => ServiciosDe(clase)[i].id # ServiciosDe(clase)[j].id
              /\ enCola \cap enMano = {}
              /\ enCola \cap servidas = {}
              /\ enMano \cap servidas = {}
              /\ enCola \cup enMano \cup servidas \subseteq 1..CreadasDe(clase)
              /\ EnServicio /\ serv.clase = clase => serv.ent # NADIE
              /\ SinWarmup =>
                    /\ enCola \cup enMano \cup servidas = 1..CreadasDe(clase)
                    /\ CreadasDe(clase) = Len(cola) + Cardinality(enMano)
                                              + Len(ServiciosDe(clase))
                    /\ Len(LlegadasDe(clase)) = CreadasDe(clase)
                    /\ \A e \in Rango(cola) \cup EnManoDe(clase)
                                  \cup Rango(ServiciosDe(clase)) :
                          /\ LlegadasDe(clase)[e.id].id = e.id
                          /\ LlegadasDe(clase)[e.id].tiempo = e.tiempo_llegada)
    /\ [][pc["serv"] = "get" /\ pc'["serv"] = "corte"
            => /\ ColaDeClase(serv.clase)'
                     = Append(ColaDeClase(serv.clase), serv.ent)
               /\ Len(ServiciosDe(serv.clase)') = Len(ServiciosDe(serv.clase))]_vars

\* with every arrival recorded: an entity was taken and put back, behind an
\* entity that arrived after it
C20_Testigo ==
    /\ SinWarmup
    /\ pc["serv"] = "corte"
    /\ LET cola == ColaDeClase(serv.clase)
       IN  /\ Len(cola) >= 2
           /\ cola[Len(cola)] = serv.ent
           /\ cola[Len(cola)].tiempo_llegada < cola[1].tiempo_llegada

----------------------------------------------------------------------------
(* C21: what an arrival does *)

\* the step creates an entity of the class: the counter of the class goes up
\* by one, the entity carries that id and the clock of the step and is the
\* new tail of the queue of the class, whatever the phase; the arrival record,
\* if the warm-up is over, carries the id, the clock and the length of the
\* queue with the entity in it
LlegaUna(clase) ==
    /\ CreadasDe(clase)' = CreadasDe(clase) + 1
    /\ ColaDeClase(clase)'
          = Append(ColaDeClase(clase), [id |-> CreadasDe(clase)', tiempo_llegada |-> now'])
    /\ IF now' >= cfg.warmup_time
       THEN /\ Len(LlegadasDe(clase)') = Len(LlegadasDe(clase)) + 1
            /\ SubSeq(LlegadasDe(clase)', 1, Len(LlegadasDe(clase))) = LlegadasDe(clase)
            /\ LET r == LlegadasDe(clase)'[Len(LlegadasDe(clase)')]
               IN  /\ r.id = CreadasDe(clase)'
                   /\ r.tiempo = now'
                   /\ r.cola_longitud = Len(ColaDeClase(clase)')
                   /\ r.cola_longitud >= 1
       ELSE LlegadasDe(clase)' = LlegadasDe(clase)

\* C21: within a run, a counter of ids changes only by an arrival of its
\* class, which does what LlegaUna says and leaves the other class's counter
\* alone; so the ids given are 1, 2, 3, ... per class, arrivals of the warm-up
\* included, and the arrival records carry consecutive ids that end at the
\* counter.
C21_Llegadas ==
    /\ [][corrida' = corrida =>
            \A clase \in {"V", "P"} :
               /\ CreadasDe(clase)' # CreadasDe(clase) =>
                     /\ LlegaUna(clase)
                     /\ \A otra \in {"V", "P"} \ {clase} :
                           CreadasDe(otra)' = CreadasDe(otra)
               /\ LlegadasDe(clase)' # LlegadasDe(clase) =>
                     CreadasDe(clase)' # CreadasDe(clase)]_vars
    /\ [](\A clase \in {"V", "P"} :
            LET ll == LlegadasDe(clase)
            IN  /\ \A i \in 1..Len(ll) :
                      ll[i].id = CreadasDe(clase) - Len(ll) + i
                /\ SinWarmup => Len(ll) = CreadasDe(clase))

\* the first vehicle arrived during the warm-up and waits; the second one
\* arrives after the warm-up, while the light is amber, and its record, the
\* first of the run, carries id 2 and a queue of two; the pedestrian who
\* arrived during the warm-up has no record
C21_Testigo ==
    /\ cfg.warmup_time > 0
    /\ fase_actual = "AMARILLO_VEHICULAR"
    /\ vehiculo_id = 2
    /\ peaton_id = 1
    /\ registros.llegadas_peatones = <<>>
    /\ Len(registros.llegadas_vehiculos) = 1
    /\ registros.llegadas_vehiculos[1].id = 2
    /\ registros.llegadas_vehiculos[1].tiempo = now
    /\ registros.llegadas_vehiculos[1].cola_longitud = 2
    /\ Len(cola_vehiculos) = 2
    /\ cola_vehiculos[2] = Entidad(2, now)

----------------------------------------------------------------------------
(* C22: the cycle counter *)

\* the records of a stream appended by the step
Nuevos(f) == SubSeq(registros[f]', Len(registros[f]) + 1, Len(registros[f]'))

FlujosConCiclo ==
    {"eventos_semaforo", "decisiones_adaptativas",
     "servicios_vehiculos", "servicios_peatones"}

EsPrimerVerde(f, r) == f = "eventos_semaforo" /\ r.fase \in PrimerasFases

\* the number of first vehicle greens among the first i phase records
PrimerosVerdesHasta(i) ==
    Cardinality({j \in 1..i : Eventos[j].fase \in PrimerasFases})

\* C22: the counter is 0 until the controller starts; within a run it changes
\* only by +1, in the step of the controller that sets the vehicle green of a
\* new cycle (the fixed controller records the green in that step, the
\* adaptive one starts there the process that records it at the same clock),
\* never in the step of an extension, an amber, a pedestrian green or a
\* service; a record of a first vehicle green carries the counter as it is
\* after the step, every other phase, decision and service record the
\* counter as it was before the step, which is 1 or more; so with every
\* record kept the k-th first vehicle green carries k, each phase record
\* carries the number of first vehicle greens recorded up to it, and in every
\* stream the cycle indices never decrease.
C22_ContadorDeCiclos ==
    /\ [](/\ pc["ctrl"] = "inicio" => ciclo_numero = 0
          /\ SinWarmup =>
                /\ \A i \in 1..Len(Eventos) : Eventos[i].ciclo = PrimerosVerdesHasta(i)
                /\ ciclo_numero = PrimerosVerdesHasta(Len(Eventos))
                                     + (IF pc["fvv"] = "inicio" THEN 1 ELSE 0)
          /\ \A f \in FlujosConCiclo : \A i, j \in 1..Len(registros[f]) :
                /\ registros[f][i].ciclo >= 1
                /\ registros[f][i].ciclo <= ciclo_numero
                /\ i < j => registros[f][i].ciclo <= registros[f][j].ciclo)
    /\ [][corrida' = corrida =>
            /\ ciclo_numero' # ciclo_numero =>
                  /\ ciclo_numero' = ciclo_numero + 1
                  /\ Head(agenda).proc = "ctrl"
                  /\ pc["ctrl"] \in {"inicio", "amarillo_v", "amarillo_p"}
                  /\ pc'["ctrl"] = "verde_v"
                  /\ fase_actual' = "VERDE_VEHICULAR"
                  /\ IF Fijo
                     THEN Grabando =>
                             \E i \in 1..Len(Nuevos("eventos_semaforo")) :
                                Nuevos("eventos_semaforo")[i].fase = "VERDE_VEHICULAR"
                     ELSE /\ pc'["fvv"] = "inicio"
                          /\ Head(agenda').proc = "fvv"
                          /\ Head(agenda').t = now'
            /\ \A f \in FlujosConCiclo : \A i \in 1..Len(Nuevos(f)) :
                  LET r == Nuevos(f)[i]
                  IN  IF EsPrimerVerde(f, r)
                      THEN /\ r.ciclo = ciclo_numero'
                           /\ Fijo => ciclo_numero' = ciclo_numero + 1
                           /\ Adaptativo => pc["fvv"] = "inicio"
                      ELSE r.ciclo = ciclo_numero]_vars

\* the adaptive controller is in its third cycle: the first skipped the
\* pedestrian phase, the second extended the green and served a vehicle
C22_Testigo ==
    /\ Adaptativo
    /\ ciclo_numero = 3
    /\ \E i \in 1..Len(Decisiones) :
          Decisiones[i].tipo = "SALTAR_FASE_PEATONAL" /\ Decisiones[i].ciclo = 1
    /\ \E i \in 1..Len(Decisiones) :
          Decisiones[i].tipo = "EXTENSION" /\ Decisiones[i].ciclo = 2
    /\ \E i \in 1..Len(registros.servicios_vehiculos) :
          registros.servicios_vehiculos[i].ciclo = 2

----------------------------------------------------------------------------
(* C23: one evaluation of the extension loop *)

\* the longest wait among the queued pedestrians at the clock of the step
EsperaPeatonalDelPaso ==
    IF Len(cola_peatones) = 0 THEN 0
    ELSE SeqMax([i \in 1..Len(cola_peatones) |->
                    now' - cola_peatones[i].tiempo_llegada])

\* the outcome the priority order gives in the state evaluated
ResultadoDebido ==
    IF EsperaPeatonalDelPaso > cfg.w_max THEN <<"FIN_EXTENSION", "PRIORIDAD_PEATONAL">>
    ELSE IF Len(cola_vehiculos) < cfg.t_v THEN <<"FIN_EXTENSION", "COLA_VEHICULAR_BAJA">>
    ELSE IF tiempo_verde_total + cfg.b_extension > cfg.g_max
         THEN <<"FIN_EXTENSION", "MAXIMO_ALCANZADO">>
    ELSE <<"EXTENSION", "ALTA_DEMANDA_VEHICULAR">>

\* C23: a step that evaluates the extension loop with the cumulative green
\* under g_max takes exactly one outcome, the first that applies of: the
\* pedestrians' longest wait above w_max, the vehicle queue under t_v, one
\* more block over g_max, extend; it records that one decision and no other
\* (when the warm-up is over); on a stop the loop returns and the green is
\* not lengthened; on an extension the wait is at most w_max, the queue at
\* least t_v, the cumulative green grows by b and stays within g_max, and the
\* service loop is started for b.
C23_UnaEvaluacion ==
    [][EvaluaAhora =>
          /\ cola_vehiculos' = cola_vehiculos /\ cola_peatones' = cola_peatones
          /\ IF Grabando
             THEN /\ Len(Decisiones') = Len(Decisiones) + 1
                  /\ Decisiones'[Len(Decisiones')].tipo = ResultadoDebido[1]
                  /\ Decisiones'[Len(Decisiones')].motivo = ResultadoDebido[2]
                  /\ Decisiones'[Len(Decisiones')].tiempo = now'
             ELSE Decisiones' = Decisiones
          /\ IF ResultadoDebido[1] = "EXTENSION"
             THEN /\ EsperaPeatonalDelPaso <= cfg.w_max
                  /\ Len(cola_vehiculos) >= cfg.t_v
                  /\ tiempo_verde_total' = tiempo_verde_total + cfg.b_extension
                  /\ tiempo_verde_total' <= cfg.g_max
                  /\ extensiones' = extensiones + 1
                  /\ pc'["fvv"] = "bloque" /\ pc'["serv"] = "inicio"
                  /\ serv'.clase = "V" /\ serv'.duracion = cfg.b_extension
             ELSE /\ tiempo_verde_total' = tiempo_verde_total
                  /\ pc'["fvv"] = "fin"
                  /\ Eventos' = Eventos
                  /\ serv' = serv
      ]_vars

\* the loop has just stopped for the pedestrians in a state where the
\* vehicle queue was under its threshold too
C23_Testigo ==
    /\ Adaptativo
    /\ pc["fvv"] = "fin"
    /\ pc["ctrl"] = "verde_v"
    /\ Decisiones # <<>>
    /\ Decisiones[Len(Decisiones)].tiempo = now
    /\ Decisiones[Len(Decisiones)].motivo = "PRIORIDAD_PEATONAL"
    /\ Decisiones[Len(Decisiones)].cola_v < cfg.t_v
    /\ \E i \in 1..Len(Decisiones) : Decisiones[i].tipo = "EXTENSION"

----------------------------------------------------------------------------
(* C24: the decision on the pedestrian phase *)

\* this step is the decision on the pedestrian phase
DecidePeatonal == Adaptativo /\ Toca("ctrl", "amarillo_v")

\* the outcome the order of the criteria gives in the state evaluated
ActivacionDebida ==
    IF Len(cola_peatones) >= cfg.t_p THEN "COLA_PEATONAL_ALTA"
    ELSE IF EsperaPeatonalDelPaso > cfg.w_max THEN "ESPERA_EXCESIVA"
    ELSE IF Len(cola_peatones) > 0 THEN "HAY_PEATONES"
    ELSE "SIN_PEATONES"

SaltosEn(k) ==
    {i \in 1..Len(Decisiones) :
        Decisiones[i].tipo = "SALTAR_FASE_PEATONAL" /\ Decisiones[i].ciclo = k}

FasesEn(fase, k) ==
    {i \in 1..Len(Eventos) : Eventos[i].fase = fase /\ Eventos[i].ciclo = k}

\* C24: the adaptive controller decides on the pedestrian phase in the step
\* in which the vehicle amber ends and nowhere else; the outcome is the first
\* that applies of: queue >= t_p, longest wait > w_max, queue not empty
\* (activate, with that motive), else skip; on activation the pedestrian
\* green of g_p starts in that step, with no decision record, and is followed
\* by the pedestrian amber; on a skip one SALTAR_FASE_PEATONAL / SIN_PEATONES
\* record is written, no phase is recorded and the next cycle starts; so with
\* every record kept each finished cycle has either one pedestrian green and
\* one pedestrian amber, or one skip record and neither.
C24_DecisionPeatonal ==
    /\ [][/\ DecidePeatonal =>
               /\ Eventos # <<>> /\ Grabando =>
                     LET u == Eventos[Len(Eventos)]
                     IN  u.fase = "AMARILLO_VEHICULAR" =>
                            u.tiempo + u.duracion = now'
               /\ cola_peatones' = cola_peatones /\ cola_vehiculos' = cola_vehiculos
               /\ IF ActivacionDebida # "SIN_PEATONES"
                  THEN /\ fase_actual' = "VERDE_PEATONAL"
                       /\ ciclo_numero' = ciclo_numero
                       /\ Decisiones' = Decisiones
                       /\ pc'["serv"] = "inicio"
                       /\ serv'.clase = "P" /\ serv'.duracion = cfg.g_p_fijo
                       /\ Grabando =>
                             /\ Len(Eventos') = Len(Eventos) + 1
                             /\ Eventos'[Len(Eventos')].fase = "VERDE_PEATONAL"
                             /\ Eventos'[Len(Eventos')].duracion = cfg.g_p_fijo
                             /\ Eventos'[Len(Eventos')].info.motivo = ActivacionDebida
                  ELSE /\ Eventos' = Eventos
                       /\ ciclo_numero' = ciclo_numero + 1
                       /\ fase_actual' # "VERDE_PEATONAL"
                       /\ serv' = serv
                       /\ Grabando =>
                             /\ Len(Decisiones') = Len(Decisiones) + 1
                             /\ Decisiones'[Len(Decisiones')].tipo = "SALTAR_FASE_PEATONAL"
                             /\ Decisiones'[Len(Decisiones')].motivo = "SIN_PEATONES"
                             /\ Decisiones'[Len(Decisiones')].ciclo = ciclo_numero
          /\ (Adaptativo /\ ~DecidePeatonal /\ corrida' = corrida) =>
               /\ \A i \in (Len(Decisiones) + 1)..Len(Decisiones') :
                     Decisiones'[i].tipo # "SALTAR_FASE_PEATONAL"
               /\ \A i \in (Len(Eventos) + 1)..Len(Eventos') :
                     Eventos'[i].fase # "VERDE_PEATONAL"
               /\ fase_actual' = "VERDE_PEATONAL" => fase_actual = "VERDE_PEATONAL"
         ]_vars
    /\ []((Adaptativo /\ SinWarmup) =>
            /\ \A k \in 1..ciclo_numero :
                  LET verdes == Cardinality(FasesEn("VERDE_PEATONAL", k))
                      ambar == Cardinality(FasesEn("AMARILLO_PEATONAL", k))
                      saltos == Cardinality(SaltosEn(k))
                  IN  /\ verdes + saltos <= 1
                      /\ ambar <= verdes
                      /\ k < ciclo_numero => verdes + saltos = 1 /\ ambar = verdes
            /\ \A i \in 1..Len(Eventos) :
                  /\ Eventos[i].fase = "VERDE_PEATONAL" =>
                        /\ i > 1 /\ Eventos[i - 1].fase = "AMARILLO_VEHICULAR"
                        /\ Eventos[i].tiempo = Eventos[i - 1].tiempo + cfg.amarillo
                        /\ i < Len(Eventos) =>
                              /\ Eventos[i + 1].fase = "AMARILLO_PEATONAL"
                              /\ Eventos[i + 1].duracion = cfg.amarillo
                              /\ Eventos[i + 1].tiempo = Eventos[i].tiempo + cfg.g_p_fijo
                  /\ Eventos[i].fase = "AMARILLO_PEATONAL" =>
                        i > 1 /\ Eventos[i - 1].fase = "VERDE_PEATONAL")

\* a cycle skipped the pedestrian phase, a later one activated it by default
\* (a pedestrian queued, fewer than t_p, not waiting longer than w_max) and
\* has reached its pedestrian amber
C24_Testigo ==
    /\ Adaptativo
    /\ fase_actual = "AMARILLO_PEATONAL"
    /\ SaltosEn(1) # {}
    /\ \E i \in 1..Len(Eventos) :
          /\ Eventos[i].fase = "VERDE_PEATONAL"
          /\ Eventos[i].info.motivo = "HAY_PEATONES"
          /\ Eventos[i].cola_p > 0 /\ Eventos[i].cola_p < cfg.t_p

----------------------------------------------------------------------------
(* C25: the service that does not fit in the phase *)

\* the entity popped is held while the loop waits to be resumed
Sostiene == pc["serv"] = "get"

\* what the loop of class c does with the entity it holds when it is
\* resumed, and afterwards: with a duration drawn above the remaining time the
\* entity becomes the tail of the queue as it stands, the others keeping
\* their places, nothing is counted or recorded, and the loop sleeps until the
\* end of the phase, pops nothing more and returns there; with a duration up
\* to the remaining time the service is begun and ends that much later, at
\* the end of the phase if the two are equal, where it is counted and, being
\* the last, the loop returns.
Preempcion(c) ==
    /\ (Sostiene /\ ~Sostiene') =>
          LET resto == serv.tiempo_fin - now'
          IN  /\ serv'.ent = serv.ent
              /\ serv'.atendidos = serv.atendidos
              /\ registros' = registros
              /\ IF serv'.tiempo_servicio > resto
                 THEN /\ pc'["serv"] = "corte"
                      /\ ColaDeClase(c)' = Append(ColaDeClase(c), serv.ent)
                      /\ \E i \in 1..Len(agenda') :
                            agenda'[i].proc = "serv" /\ agenda'[i].t = serv.tiempo_fin
                 ELSE /\ pc'["serv"] = "servicio"
                      /\ ColaDeClase(c)' = ColaDeClase(c)
                      /\ \E i \in 1..Len(agenda') :
                            /\ agenda'[i].proc = "serv"
                            /\ agenda'[i].t = now' + serv'.tiempo_servicio
                            /\ serv'.tiempo_servicio = resto =>
                                  agenda'[i].t = serv.tiempo_fin
    /\ (pc["serv"] = "corte" /\ corrida' = corrida) =>
          /\ Len(ColaDeClase(c)') >= Len(ColaDeClase(c))
          /\ SubSeq(ColaDeClase(c)', 1, Len(ColaDeClase(c))) = ColaDeClase(c)
          /\ ServiciosDe(c)' = ServiciosDe(c)
          /\ pc'["serv"] \in {"corte", "fin"}
          /\ pc'["serv"] = "fin" =>
                /\ now' = serv.tiempo_fin
                /\ \E i \in 1..Len(agenda') :
                      agenda'[i].proc = serv.padre /\ agenda'[i].t = now'
    /\ (pc["serv"] = "servicio" /\ pc'["serv"] # "servicio"
           /\ corrida' = corrida /\ now' = serv.tiempo_fin) =>
          /\ pc'["serv"] = "fin"
          /\ now' >= cfg.warmup_time =>
                /\ Len(ServiciosDe(c)') = Len(ServiciosDe(c)) + 1
                /\ ServiciosDe(c)'[Len(ServiciosDe(c)')].id = serv.ent.id

\* C25 as stated: Preempcion, and the queue to which the entity is put back
\* is the queue the pop left, so that its length after the put is its length
\* before the pop.
C25_Preempcion ==
    [][\A c \in {"V", "P"} : serv.clase = c =>
          /\ Preempcion(c)
          /\ (Sostiene /\ Sostiene' /\ corrida' = corrida) =>
                ColaDeClase(c)' = ColaDeClase(c)]_vars

\* C25: Preempcion, and while the loop holds the entity the queue changes
\* only by arrivals of its class at that clock, which come before the entity
\* put back: the length after the put is the length before the pop plus
\* those arrivals.
C25_PreempcionConLlegadas ==
    [][\A c \in {"V", "P"} : serv.clase = c =>
          /\ Preempcion(c)
          /\ (Sostiene /\ Sostiene' /\ corrida' = corrida) =>
                \/ ColaDeClase(c)' = ColaDeClase(c)
                \/ /\ Len(ColaDeClase(c)') = Len(ColaDeClase(c)) + 1
                   /\ SubSeq(ColaDeClase(c)', 1, Len(ColaDeClase(c))) = ColaDeClase(c)
                   /\ ColaDeClase(c)'[Len(ColaDeClase(c)')].tiempo_llegada = now'
                   /\ now' = now]_vars

\* an entity that had waited has just been put back, the phase not being
\* over: it is the tail, behind an entity that arrived at this very clock
C25_Testigo ==
    /\ pc["serv"] = "corte"
    /\ LET cola == ColaDeClase(serv.clase)
       IN  /\ Len(cola) >= 2
           /\ cola[Len(cola)] = serv.ent
           /\ cola[Len(cola) - 1].tiempo_llegada = now
           /\ serv.ent.tiempo_llegada < now
    /\ serv.tiempo_servicio > serv.tiempo_fin - now
    /\ now < serv.tiempo_fin

----------------------------------------------------------------------------
(* C26: a service loop lasts its phase *)

\* a service loop has been invoked and has not returned
BucleActivo == pc["serv"] # "fin"

\* the phase record written when the loop under way was invoked
FaseDelBucle == Eventos[Len(Eventos)]

\* C26: a service loop is invoked only when none is active; while one is
\* active the process that invoked it is suspended on it (and the controller
\* on that process), no timer of theirs is pending, and no step changes the
\* phase, the cycle counter, the phase records or the decision records; the
\* clock does not pass the end of the phase, start + d; and the loop returns
\* exactly there, whether it polled an empty queue, served, or put an entity
\* back, also when d = 0; with every record kept the start and d are those
\* of the last phase record.
C26_BucleDuraLaFase ==
    /\ [](BucleActivo =>
            /\ serv.padre \in {"ctrl", "fvv"}
            /\ pc["ctrl"] \in {"verde_v", "verde_p"}
            /\ serv.padre = "fvv" => pc["fvv"] = "bloque" /\ pc["ctrl"] = "verde_v"
            /\ \A i \in 1..Len(agenda) : agenda[i].proc \notin {"ctrl", "fvv"}
            /\ \E i \in 1..Len(agenda) : agenda[i].proc = "serv"
            /\ pc["serv"] # "inicio" =>
                  /\ serv.tiempo_fin = serv.tiempo_inicio + serv.duracion
                  /\ now <= serv.tiempo_fin
            /\ SinWarmup =>
                  /\ Eventos # <<>>
                  /\ FaseDelBucle.fase \in FasesVerdesDe(serv.clase)
                  /\ FaseDelBucle.duracion = serv.duracion
                  /\ now <= FaseDelBucle.tiempo + FaseDelBucle.duracion
                  /\ pc["serv"] # "inicio" => serv.tiempo_inicio = FaseDelBucle.tiempo)
    /\ [][corrida' = corrida =>
            /\ (BucleActivo' /\ pc'["serv"] = "inicio" /\ pc["serv"] # "inicio") =>
                  ~BucleActivo
            /\ (BucleActivo /\ pc["serv"] = "inicio" /\ pc'["serv"] # "inicio") =>
                  now' = now
            /\ BucleActivo =>
                  /\ Eventos' = Eventos
                  /\ Decisiones' = Decisiones
                  /\ fase_actual' = fase_actual
                  /\ ciclo_numero' = ciclo_numero
                  /\ pc'["ctrl"] = pc["ctrl"] /\ pc'["fvv"] = pc["fvv"]
            /\ (BucleActivo /\ ~BucleActivo') =>
                  /\ pc["serv"] # "inicio" => now' = serv.tiempo_inicio + serv.duracion
                  /\ SinWarmup => now' = FaseDelBucle.tiempo + FaseDelBucle.duracion
                  /\ \E i \in 1..Len(agenda') :
                        agenda'[i].proc = serv.padre /\ agenda'[i].t = now'
         ]_vars

\* a loop has just returned, at the end of its phase, where a service ended
\* exactly; the process that invoked it is the next to run
C26_Testigo ==
    /\ ~BucleActivo
    /\ SinWarmup
    /\ Eventos # <<>>
    /\ FaseDelBucle.duracion > 0
    /\ now = FaseDelBucle.tiempo + FaseDelBucle.duracion
    /\ \E i \in 1..Len(agenda) :
          agenda[i].proc \in {"ctrl", "fvv"} /\ agenda[i].t = now /\ i = 1
    /\ \E c \in {"V", "P"} : \E i \in 1..Len(ServiciosDe(c)) :
          /\ FaseDelBucle.fase \in FasesVerdesDe(c)
          /\ ServiciosDe(c)[i].tiempo_fin_servicio = now

----------------------------------------------------------------------------
(* C27: the poll of an empty queue *)

\* the entities of class c that arrived to an empty queue while the loop
\* under way, of their class, was running, and are still queued
LlegadasAColaVacia(c) ==
    {e \in Rango(ColaDeClase(c)) :
        /\ BucleActivo /\ serv.clase = c /\ pc["serv"] # "inicio"
        /\ serv.tiempo_inicio <= e.tiempo_llegada
        /\ e.id <= Len(LlegadasDe(c))
        /\ LlegadasDe(c)[e.id].cola_longitud = 1}

\* the loop never sleeps past the end of its phase, and the poll of an empty
\* queue lasts min(1, remaining phase time), after which the loop looks again
\* and pops the head if the phase is not over
SondeoAcotado ==
    /\ [](BucleActivo => \A i \in 1..Len(agenda) :
             (agenda[i].proc = "serv" /\ pc["serv"] # "inicio") =>
                agenda[i].t <= serv.tiempo_fin)
    /\ [][/\ (/\ pc'["serv"] = "sondeo" /\ agenda # <<>> /\ Head(agenda).proc = "serv"
              /\ agenda' # agenda /\ corrida' = corrida) =>
               /\ \A c \in {"V", "P"} : serv'.clase = c => ColaDeClase(c)' = <<>>
               /\ \E i \in 1..Len(agenda') :
                     /\ agenda'[i].proc = "serv"
                     /\ agenda'[i].t = now' + Min2(Sondeo, serv'.tiempo_fin - now')
          /\ (pc["serv"] = "sondeo" /\ pc'["serv"] # "sondeo" /\ corrida' = corrida) =>
               \A c \in {"V", "P"} : serv.clase = c =>
                  IF now' < serv.tiempo_fin /\ ColaDeClase(c) # <<>>
                  THEN /\ pc'["serv"] = "get"
                       /\ serv'.ent = Head(ColaDeClase(c))
                       /\ ColaDeClase(c)' = Tail(ColaDeClase(c))
                  ELSE pc'["serv"] \in {"sondeo", "fin"}
         ]_vars

\* C27 as stated: SondeoAcotado, and an entity that arrived at t to an empty
\* queue while the loop of its class was running is not found queued after
\* t + 1 while the phase lasts.
C27_SondeoAcotado ==
    /\ SondeoAcotado
    /\ [](SinWarmup => \A c \in {"V", "P"} : \A e \in LlegadasAColaVacia(c) :
             now < serv.tiempo_fin => now <= e.tiempo_llegada + Sondeo)

\* C27: SondeoAcotado, and an entity that arrived at t to an empty queue while
\* the loop of its class was in its poll is popped when the poll ends, no
\* later than t + 1 and no later than the end of the phase; one that arrived
\* while the loop held or served another entity is looked at only when the
\* loop comes back to its test.
C27_SondeoAcotadoEnElSondeo ==
    /\ SondeoAcotado
    /\ [](SinWarmup => \A c \in {"V", "P"} : \A e \in LlegadasAColaVacia(c) :
             /\ pc["serv"] = "sondeo" =>
                   /\ EventoDe("serv").t <= e.tiempo_llegada + Sondeo
                   /\ now <= e.tiempo_llegada + Sondeo
             /\ (now < serv.tiempo_fin /\ now > e.tiempo_llegada + Sondeo) =>
                   pc["serv"] \in {"get", "servicio", "corte"})

\* the loop has just popped, well before the end of the phase, an entity
\* that had arrived to an empty queue during its poll, less than 1 before
C27_Testigo ==
    /\ SinWarmup
    /\ pc["serv"] = "get"
    /\ serv.ent.id <= Len(LlegadasDe(serv.clase))
    /\ LlegadasDe(serv.clase)[serv.ent.id].cola_longitud = 1
    /\ serv.tiempo_inicio < serv.ent.tiempo_llegada
    /\ serv.ent.tiempo_llegada < now
    /\ now < serv.ent.tiempo_llegada + Sondeo
    /\ now + Sondeo < serv.tiempo_fin
    /\ Head(agenda).proc = "serv"

----------------------------------------------------------------------------
(* C28: who changes a queue *)

GeneradorDe(c) == IF c = "V" THEN "gen_v" ELSE "gen_p"

\* C28: within a run the queue of a class changes only in a step of the
\* arrival generator of that class, which appends one entity at the tail, or
\* in a step of the service loop of that class during the green of that
\* class, which takes the head or appends at the tail the entity it holds;
\* steps of the controller and of the extension loop (phase changes, amber,
\* extension and activation decisions, records) and steps of the other
\* class's generator and service loop leave it as it is; so while the phase
\* is not the green of the class the queue loses nothing.
C28_MarcoDeLasColas ==
    [][corrida' = corrida =>
          \A c \in {"V", "P"} :
             /\ ColaDeClase(c)' # ColaDeClase(c) =>
                   \/ /\ Head(agenda).proc = GeneradorDe(c)
                      /\ Len(ColaDeClase(c)') = Len(ColaDeClase(c)) + 1
                      /\ SubSeq(ColaDeClase(c)', 1, Len(ColaDeClase(c))) = ColaDeClase(c)
                      /\ ColaDeClase(c)'[Len(ColaDeClase(c)')].id = CreadasDe(c)'
                   \/ /\ Head(agenda).proc = "serv"
                      /\ serv'.clase = c
                      /\ fase_actual = VerdeDe(c) /\ fase_actual' = fase_actual
                      /\ \/ /\ ColaDeClase(c) # <<>>
                            /\ ColaDeClase(c)' = Tail(ColaDeClase(c))
                            /\ serv'.ent = Head(ColaDeClase(c))
                            /\ pc'["serv"] = "get"
                         \/ /\ ColaDeClase(c)' = Append(ColaDeClase(c), serv.ent)
                            /\ pc["serv"] = "get" /\ pc'["serv"] = "corte"
             /\ (agenda # <<>> /\ Head(agenda).proc \in {"ctrl", "fvv"}) =>
                   ColaDeClase(c)' = ColaDeClase(c)
             /\ fase_actual # VerdeDe(c) =>
                   /\ Len(ColaDeClase(c)') >= Len(ColaDeClase(c))
                   /\ SubSeq(ColaDeClase(c)', 1, Len(ColaDeClase(c))) = ColaDeClase(c)
      ]_vars

\* under the adaptive controller the vehicle amber has begun after an
\* extension, with vehicles and a pedestrian waiting; a vehicle was served
C28_Testigo ==
    /\ Adaptativo
    /\ fase_actual = "AMARILLO_VEHICULAR"
    /\ cola_vehiculos # <<>>
    /\ cola_peatones # <<>>
    /\ registros.servicios_vehiculos # <<>>
    /\ \E i \in 1..Len(Decisiones) :
          Decisiones[i].tipo = "EXTENSION" /\ Decisiones[i].ciclo = ciclo_numero

----------------------------------------------------------------------------
(* C29: the pop of the service loop *)

\* the service loop is at the yield of cola.get()
EnElGet == pc["serv"] = "get"

\* C29: the service loop takes an entity only in a step of its own that
\* begins at the test of the while (after its start, a poll or a completed
\* service), in which the queue of its class is not empty; in that same step
\* the entity taken is the head the queue had and the queue keeps the rest,
\* and the loop is resumed at the clock of that step: while it is at the
\* yield of the get it holds an entity and its event is due at the current
\* clock, so it never waits for an item.
C29_SacaSinSuspension ==
    /\ [](EnElGet =>
            /\ serv.ent # NADIE
            /\ \E i \in 1..Len(agenda) :
                  agenda[i].proc = "serv" /\ agenda[i].t = now)
    /\ [][(corrida' = corrida /\ ~EnElGet /\ EnElGet') =>
             /\ Head(agenda).proc = "serv"
             /\ pc["serv"] \in {"inicio", "sondeo", "servicio"}
             /\ now' = Ahora
             /\ \A c \in {"V", "P"} :
                   serv'.clase = c =>
                      /\ fase_actual = VerdeDe(c)
                      /\ ColaDeClase(c) # <<>>
                      /\ serv'.ent = Head(ColaDeClase(c))
                      /\ ColaDeClase(c)' = Tail(ColaDeClase(c))
                      /\ ColaDeClase(IF c = "V" THEN "P" ELSE "V")'
                            = ColaDeClase(IF c = "V" THEN "P" ELSE "V")
         ]_vars

\* the loop has served one entity and has taken the next at the clock at
\* which that service ended, leaving another entity in the queue
C29_Testigo ==
    /\ EnElGet
    /\ serv.atendidos >= 1
    /\ serv.ent # NADIE
    /\ ColaDe(serv.clase) # <<>>
    /\ serv.ent.id < Head(ColaDe(serv.clase)).id
    /\ \E i \in 1..Len(agenda) : agenda[i].proc = "serv" /\ agenda[i].t = now

----------------------------------------------------------------------------
(* C30: the extension loop ends, and the green lasts what it adds up *)

\* b > 0 and g_min <= g_max
ExtensionBienFormada ==
    Adaptativo /\ cfg.b_extension > 0 /\ cfg.g_min <= cfg.g_max

\* floor((g_max - g_min) / b)
MaximoDeExtensiones == (cfg.g_max - cfg.g_min) \div cfg.b_extension

\* the extension loop is between two of its blocks, or in one
EnLaExtension == pc["fvv"] = "bloque"

\* C30: for b > 0 and g_min <= g_max, the extension loop of a cycle extends
\* at most floor((g_max - g_min) / b) times; an extension adds b to the
\* cumulative green and runs the vehicles' service loop for b, the loop
\* decides again exactly when the cumulative green has elapsed since the
\* initial green of the cycle, and the vehicle amber of the cycle begins
\* g_min + k * b after that initial green, k being the extensions of the
\* cycle.
C30_ExtensionAcotada ==
    /\ [](ExtensionBienFormada =>
            /\ EnLaExtension =>
                  /\ extensiones <= MaximoDeExtensiones
                  /\ tiempo_verde_total = cfg.g_min + extensiones * cfg.b_extension
                  /\ \A t0 \in InicioVerdeDe(ciclo_numero) :
                        /\ Cardinality(ExtensionesDe(ciclo_numero)) = extensiones
                        /\ now <= t0 + tiempo_verde_total
            /\ \A i \in 1..Len(Eventos) :
                  Eventos[i].fase = "AMARILLO_VEHICULAR" =>
                     \A t0 \in InicioVerdeDe(Eventos[i].ciclo) :
                        LET k == Cardinality(ExtensionesDe(Eventos[i].ciclo))
                        IN  /\ k <= MaximoDeExtensiones
                            /\ Eventos[i].tiempo - t0
                                  = cfg.g_min + k * cfg.b_extension)
    /\ [][(ExtensionBienFormada /\ corrida' = corrida /\ EnLaExtension
             /\ Head(agenda).proc = "fvv" /\ now' = Ahora) =>
             /\ \A t0 \in InicioVerdeDe(ciclo_numero) :
                   Ahora = t0 + tiempo_verde_total
             /\ \/ /\ extensiones' = extensiones + 1
                   /\ tiempo_verde_total' = tiempo_verde_total + cfg.b_extension
                   /\ serv'.clase = "V" /\ serv'.duracion = cfg.b_extension
                   /\ pc'["serv"] = "inicio"
                   /\ EnLaExtension'
                \/ /\ pc'["fvv"] = "fin"
                   /\ tiempo_verde_total' = tiempo_verde_total
         ]_vars

\* the vehicle amber of a cycle has begun after as many extensions as the
\* bound allows, which is not a whole number of blocks away from g_max
C30_Testigo ==
    /\ ExtensionBienFormada
    /\ (cfg.g_max - cfg.g_min) % cfg.b_extension # 0
    /\ \E i \in 1..Len(Eventos) :
          /\ Eventos[i].fase = "AMARILLO_VEHICULAR"
          /\ InicioVerdeDe(Eventos[i].ciclo) # {}
          /\ Cardinality(ExtensionesDe(Eventos[i].ciclo)) = MaximoDeExtensiones
          /\ MaximoDeExtensiones >= 1

----------------------------------------------------------------------------
(* C31: what the fixed controller records when a phase starts *)

EstadoColas == registros.estado_colas

\* the step appends one phase-change record
EmiteEvento ==
    /\ corrida' = corrida
    /\ Len(Eventos') = Len(Eventos) + 1
    /\ SubSeq(Eventos', 1, Len(Eventos)) = Eventos

EventoEmitido == Eventos'[Len(Eventos')]

\* the snapshot that goes with a phase-change record: same clock, same phase,
\* same queue lengths
EstadoDe(e) ==
    [tiempo |-> e.tiempo, cola_v |-> e.cola_v, cola_p |-> e.cola_p, fase |-> e.fase]

\* the phase-change record carries the clock, the phase that starts and the
\* lengths of both queues
EventoAlDia ==
    /\ EventoEmitido.tiempo = now'
    /\ EventoEmitido.fase = fase_actual'
    /\ EventoEmitido.cola_v = Len(cola_vehiculos')
    /\ EventoEmitido.cola_p = Len(cola_peatones')

\* C31 (as stated): under the fixed controller the step that records the
\* start of any of the four phases also appends a queue snapshot with the
\* same clock, the phase that starts and the lengths of both queues.
C31_EventoYEstadoPorFase ==
    [][(Fijo /\ EmiteEvento) =>
          /\ EventoAlDia
          /\ Len(EstadoColas') > Len(EstadoColas)
          /\ EstadoColas'[Len(EstadoColas')] = EstadoDe(EventoEmitido)
      ]_vars

\* C31 (amended): under the fixed controller, after warm-up, the start of
\* each of the four phases appends a phase-change record with the clock, the
\* phase that starts and the lengths of both queues; the start of a green
\* phase also appends the snapshot that goes with it; the start of an amber
\* phase appends no snapshot; the end of the pedestrian amber appends, before
\* the record and the snapshot of the next vehicle green, a snapshot with the
\* clock, the lengths of both queues and AMARILLO_PEATONAL as its phase; and
\* snapshots are appended at no other step.
C31_EventoPorFaseEstadoPorVerde ==
    /\ [][(Fijo /\ EmiteEvento) =>
             /\ EventoAlDia
             /\ EventoEmitido.fase = "VERDE_PEATONAL" =>
                   EstadoColas' = Append(EstadoColas, EstadoDe(EventoEmitido))
             /\ EventoEmitido.fase = "VERDE_VEHICULAR" =>
                   EstadoColas' =
                      (IF ciclo_numero = 0 THEN EstadoColas
                       ELSE Append(EstadoColas,
                               [EstadoDe(EventoEmitido) EXCEPT
                                   !.fase = "AMARILLO_PEATONAL"]))
                         \o <<EstadoDe(EventoEmitido)>>
             /\ EventoEmitido.fase \in {"AMARILLO_VEHICULAR", "AMARILLO_PEATONAL"} =>
                   EstadoColas' = EstadoColas
         ]_vars
    /\ [][(Fijo /\ corrida' = corrida /\ fase_actual' # fase_actual
             /\ now' >= cfg.warmup_time) => EmiteEvento]_vars
    /\ [][(Fijo /\ corrida' = corrida /\ EstadoColas' # EstadoColas) =>
             EmiteEvento]_vars

\* a fixed run with a warm-up has recorded, after it, the start of the four
\* phases and of the next cycle, with the snapshot that closes the cycle
C31_Testigo ==
    /\ Fijo
    /\ cfg.warmup_time > 0
    /\ \A f \in {"VERDE_VEHICULAR", "AMARILLO_VEHICULAR", "VERDE_PEATONAL",
                 "AMARILLO_PEATONAL"} :
          \E i \in 1..Len(Eventos) : Eventos[i].fase = f
    /\ \E j \in 1..(Len(EstadoColas) - 1) :
          /\ EstadoColas[j].fase = "AMARILLO_PEATONAL"
          /\ EstadoColas[j + 1].fase = "VERDE_VEHICULAR"
          /\ EstadoColas[j + 1].tiempo = EstadoColas[j].tiempo

----------------------------------------------------------------------------
(* C32: the pedestrian phase is activated exactly when somebody waits *)

\* t_p >= 1, and w_max > 0 as every admissible configuration has it
UmbralesPeatonales == Adaptativo /\ cfg.t_p >= 1 /\ cfg.w_max > 0

\* C32: with t_p >= 1 (and w_max > 0), whatever the thresholds, the decision
\* activates the pedestrian phase exactly when the pedestrians' queue is not
\* empty at the decision; the motive is ESPERA_EXCESIVA only when the queue
\* holds somebody, fewer than t_p, and the longest wait exceeds w_max; so
\* every recorded pedestrian green found somebody queued and every recorded
\* skip found nobody.
C32_ActivaSiHayPeatones ==
    /\ [][(UmbralesPeatonales /\ DecidePeatonal) =>
             LET d == DebeActivarFasePeatonal(LongP, EsperaMaximaPeatonal)
             IN  /\ d[1] <=> cola_peatones # <<>>
                 /\ fase_actual' = "VERDE_PEATONAL" <=> cola_peatones # <<>>
                 /\ cola_peatones = <<>> => ciclo_numero' = ciclo_numero + 1
                 /\ d[2] = "ESPERA_EXCESIVA" =>
                       /\ 0 < LongP /\ LongP < cfg.t_p
                       /\ EsperaMaximaPeatonal > cfg.w_max
         ]_vars
    /\ [](UmbralesPeatonales =>
            /\ \A i \in 1..Len(Eventos) :
                  Eventos[i].fase = "VERDE_PEATONAL" =>
                     /\ Eventos[i].cola_p > 0
                     /\ Eventos[i].info.motivo = "ESPERA_EXCESIVA" =>
                           Eventos[i].cola_p < cfg.t_p
            /\ \A i \in 1..Len(Decisiones) :
                  Decisiones[i].tipo = "SALTAR_FASE_PEATONAL" =>
                     Decisiones[i].cola_p = 0)

\* in one run a cycle skipped the pedestrian phase with nobody queued and a
\* later cycle activated it for the wait of pedestrians fewer than t_p
C32_Testigo ==
    /\ UmbralesPeatonales
    /\ \E i \in 1..Len(Decisiones) :
          Decisiones[i].tipo = "SALTAR_FASE_PEATONAL" /\ Decisiones[i].cola_p = 0
    /\ \E i \in 1..Len(Eventos) :
          /\ Eventos[i].fase = "VERDE_PEATONAL"
          /\ Eventos[i].info.motivo = "ESPERA_EXCESIVA"
          /\ Eventos[i].cola_p >= 2
          /\ Eventos[i].cola_p < cfg.t_p

----------------------------------------------------------------------------
(* C33: a queued pedestrian gets a pedestrian green in bounded time *)

\* g_max + 2 * amber + g_p
CotaPeatonal == cfg.g_max + 2 * cfg.amarillo + cfg.g_p_fijo

\* a pedestrian green has started in (t, t + d]
VerdePeatonalTras(t, d) ==
    \E i \in 1..Len(Eventos) :
        /\ Eventos[i].fase = "VERDE_PEATONAL"
        /\ Eventos[i].tiempo > t
        /\ Eventos[i].tiempo <= t + d

\* C33: under the adaptive controller (g_min <= g_max, b > 0, every phase
\* recorded), whenever a pedestrian that arrived at t is in the queue and
\* the clock has passed t + g_max + 2 * amber + g_p, a pedestrian green has
\* started after t and not later than that, whatever vehicles arrived and
\* whatever the extension loop decided in between.
C33_RespuestaPeatonalAcotada ==
    (ExtensionBienFormada /\ SinWarmup) =>
        \A j \in 1..Len(cola_peatones) :
            LET t == cola_peatones[j].tiempo_llegada
            IN  now > t + CotaPeatonal => VerdePeatonalTras(t, CotaPeatonal)

\* a pedestrian was put back in the green it arrived for and is still queued
\* after the bound, having seen the next pedestrian green start later than
\* g_max after its arrival
C33_Testigo ==
    /\ ExtensionBienFormada /\ SinWarmup
    /\ \E j \in 1..Len(cola_peatones) :
          LET t == cola_peatones[j].tiempo_llegada
          IN  /\ now > t + CotaPeatonal
              /\ \A i \in 1..Len(Eventos) :
                    (Eventos[i].fase = "VERDE_PEATONAL" /\ Eventos[i].tiempo > t) =>
                       Eventos[i].tiempo > t + cfg.g_max
              /\ VerdePeatonalTras(t, CotaPeatonal)

----------------------------------------------------------------------------
(* C34: under the adaptive controller a service fits in one block *)

\* the recorded blocks of the vehicle green: the initial one and the extensions
Bloques ==
    {i \in 1..Len(Eventos) :
        Eventos[i].fase \in {"VERDE_VEHICULAR_INICIAL", "VERDE_VEHICULAR_EXTENSION"}}

\* the service loop of the vehicles sleeps to the end of its block after a put-back
TrasDevolver == Adaptativo /\ pc["serv"] = "corte" /\ serv.clase = "V"

\* this step is a decision of the extension loop
DecideExtension ==
    /\ Adaptativo /\ agenda # <<>> /\ Head(agenda).proc = "fvv"
    /\ EnLaExtension /\ now' = Ahora /\ corrida' = corrida

\* C34: under the adaptive controller every vehicle service begins and ends
\* inside one block of the green (the initial block or one extension), of
\* the cycle it is recorded in; a vehicle whose drawn duration exceeds what
\* is left of the block goes to the tail of the queue in that step, and
\* until the block ends the loop serves nobody and takes nobody; the block
\* ends at its time, and the decision taken at that clock, extension or not,
\* is taken with no vehicle held by a loop and counts in the queue every
\* vehicle that has arrived and has not been served, the one put back among
\* them.
C34_ServicioPorBloque ==
    /\ []((Adaptativo /\ SinWarmup) =>
            /\ \A k \in 1..Len(registros.servicios_vehiculos) :
                  LET r == registros.servicios_vehiculos[k]
                  IN  \E i \in Bloques :
                         /\ Eventos[i].ciclo = r.ciclo
                         /\ Eventos[i].tiempo <= r.tiempo_inicio_servicio
                         /\ r.tiempo_fin_servicio <= Eventos[i].tiempo + Eventos[i].duracion
            /\ (pc["serv"] = "servicio" /\ serv.clase = "V") =>
                  /\ Eventos[Len(Eventos)].fase \in
                        {"VERDE_VEHICULAR_INICIAL", "VERDE_VEHICULAR_EXTENSION"}
                  /\ serv.tiempo_inicio = Eventos[Len(Eventos)].tiempo
                  /\ serv.duracion = Eventos[Len(Eventos)].duracion
                  /\ EventoDe("serv").t <= serv.tiempo_fin)
    /\ [](TrasDevolver =>
            /\ cola_vehiculos # <<>>
            /\ serv.ent \in Rango(cola_vehiculos)
            /\ serv.tiempo_servicio > serv.tiempo_fin - now
            /\ EventoDe("serv").t = serv.tiempo_fin)
    /\ [][(Adaptativo /\ corrida' = corrida /\ pc["serv"] = "get" /\ serv.clase = "V"
             /\ pc'["serv"] = "corte") =>
             cola_vehiculos' = Append(cola_vehiculos, serv.ent)]_vars
    /\ [][(TrasDevolver /\ corrida' = corrida) =>
             /\ registros'.servicios_vehiculos = registros.servicios_vehiculos
             /\ Len(cola_vehiculos') >= Len(cola_vehiculos)
             /\ SubSeq(cola_vehiculos', 1, Len(cola_vehiculos)) = cola_vehiculos
             /\ pc'["serv"] \in {"corte", "fin"}
             /\ pc'["serv"] = "fin" => now' = serv.tiempo_fin]_vars
    /\ [][DecideExtension =>
             /\ pc["serv"] = "fin"
             /\ SinWarmup =>
                   /\ Len(cola_vehiculos)
                         = vehiculo_id - Len(registros.servicios_vehiculos)
                   /\ \A i \in (Len(Decisiones) + 1)..Len(Decisiones') :
                         Decisiones'[i].cola_v = Len(cola_vehiculos)
                   /\ extensiones' = extensiones + 1 <=>
                         Evaluar(tiempo_verde_total, Len(cola_vehiculos),
                                 EsperaMaximaPeatonal) = "EXTENDER"]_vars

\* an extension has just been decided at the end of a block in which the
\* vehicle at the head, queued since before the block began, was taken and
\* put back: the block served nobody and the vehicle is in the queue that
\* the decision counted
C34_Testigo ==
    /\ Adaptativo /\ SinWarmup
    /\ pc["serv"] = "inicio" /\ serv.clase = "V"
    /\ Len(Eventos) >= 2
    /\ LET e2 == Eventos[Len(Eventos)]
           e1 == Eventos[Len(Eventos) - 1]
       IN  /\ e2.fase = "VERDE_VEHICULAR_EXTENSION" /\ e2.tiempo = now
           /\ e1.fase = "VERDE_VEHICULAR_EXTENSION" /\ e1.ciclo = e2.ciclo
           /\ \E j \in 1..Len(cola_vehiculos) :
                 cola_vehiculos[j].tiempo_llegada < e1.tiempo
           /\ \A k \in 1..Len(registros.servicios_vehiculos) :
                 registros.servicios_vehiculos[k].tiempo_fin_servicio <= e1.tiempo
           /\ Decisiones[Len(Decisiones)].tipo = "EXTENSION"
           /\ Decisiones[Len(Decisiones)].tiempo = now
           /\ Decisiones[Len(Decisiones)].cola_v = Len(cola_vehiculos)

----------------------------------------------------------------------------
(* C35: how long an adaptive cycle lasts *)

\* the cumulative green of cycle k as its recorded blocks give it
VerdeAcumuladoDe(k) ==
    cfg.g_min + Cardinality(ExtensionesDe(k)) * cfg.b_extension

\* what cycle k lasts according to what it did after the vehicle green
DuracionDebidaDe(k) ==
    VerdeAcumuladoDe(k) + cfg.amarillo
       + (IF FasesEn("VERDE_PEATONAL", k) # {}
          THEN cfg.g_p_fijo + cfg.amarillo ELSE 0)

\* this step of the controller begins a cycle after another
PasaDeCiclo ==
    /\ Adaptativo /\ corrida' = corrida
    /\ ciclo_numero >= 1 /\ ciclo_numero' = ciclo_numero + 1

\* C35: under the adaptive controller (g_min <= g_max, b > 0, every record
\* kept) the step that begins the next cycle is taken cumulative_green +
\* amber after the start of the cycle when the pedestrian phase is skipped,
\* at the clock of the skip decision, and cumulative_green + amber + g_p +
\* amber after it when the phase is activated; the initial green of the next
\* cycle starts at that clock; so the starts of two consecutive cycles are
\* at least g_min + amber and at most g_max + 2 * amber + g_p apart.
C35_DuracionDelCiclo ==
    /\ [][(PasaDeCiclo /\ ExtensionBienFormada /\ SinWarmup) =>
             \A t0 \in InicioVerdeDe(ciclo_numero) :
                /\ tiempo_verde_total = VerdeAcumuladoDe(ciclo_numero)
                /\ pc["ctrl"] = "amarillo_v" =>
                      /\ FasesEn("VERDE_PEATONAL", ciclo_numero) = {}
                      /\ now' = t0 + tiempo_verde_total + cfg.amarillo
                      /\ \A k \in {ciclo_numero} :
                            \E i \in SaltosEn(k)' : Decisiones'[i].tiempo = now'
                /\ pc["ctrl"] = "amarillo_p" =>
                      /\ FasesEn("VERDE_PEATONAL", ciclo_numero) # {}
                      /\ now' = t0 + tiempo_verde_total + cfg.amarillo
                                   + cfg.g_p_fijo + cfg.amarillo
                /\ pc["ctrl"] \in {"amarillo_v", "amarillo_p"}
         ]_vars
    /\ []((ExtensionBienFormada /\ SinWarmup) =>
            \A k \in 1..(ciclo_numero - 1) :
               /\ InicioVerdeDe(k) # {}
               /\ \A t0 \in InicioVerdeDe(k) : \A t1 \in InicioVerdeDe(k + 1) :
                     /\ t1 - t0 = DuracionDebidaDe(k)
                     /\ t1 - t0 >= cfg.g_min + cfg.amarillo
                     /\ t1 - t0 <= cfg.g_max + 2 * cfg.amarillo + cfg.g_p_fijo)

\* the third cycle has begun its green after a cycle that skipped the
\* pedestrian phase and a cycle that had it, one of them with an extension
C35_Testigo ==
    /\ ExtensionBienFormada /\ SinWarmup
    /\ ciclo_numero >= 3
    /\ InicioVerdeDe(ciclo_numero) # {}
    /\ \E k \in 1..(ciclo_numero - 1) : SaltosEn(k) # {}
    /\ \E k \in 1..(ciclo_numero - 1) : FasesEn("VERDE_PEATONAL", k) # {}
    /\ \E k \in 1..(ciclo_numero - 1) : ExtensionesDe(k) # {}

----------------------------------------------------------------------------
(* C36: the vehicle green of a cycle as calcular_metricas_adaptativas adds it up *)

\* 'VEHICULAR' in e['fase'] and e['fase'] != 'AMARILLO_VEHICULAR'
EsEventoV(e) ==
    e.fase \in {"VERDE_VEHICULAR", "VERDE_VEHICULAR_INICIAL", "VERDE_VEHICULAR_EXTENSION"}

\* duraciones_por_ciclo[k] after the first n records of eventos_semaforo
RECURSIVE DuracionPorCiclo(_, _)
DuracionPorCiclo(k, n) ==
    IF n = 0 THEN 0
    ELSE DuracionPorCiclo(k, n - 1)
            + (IF EsEventoV(Eventos[n]) /\ Eventos[n].ciclo = k
               THEN Eventos[n].duracion ELSE 0)

\* the keys of duraciones_por_ciclo
CiclosConVerde == {Eventos[i].ciclo : i \in {j \in 1..Len(Eventos) : EsEventoV(Eventos[j])}}

\* the vehicle phase of the cycle under way has ended
VerdeTerminado == Adaptativo /\ ciclo_numero >= 1 /\ pc["fvv"] = "fin"

\* C36: under the adaptive controller (g_min <= g_max, b > 0), for every
\* warm-up and every cycle with a recorded block of the vehicle green, the
\* durations of the recorded blocks of the cycle add up to a value between
\* g_min and g_max, and once the vehicle phase of the cycle has ended to the
\* cumulative green the controller reached in it.
C36_VerdePorCiclo ==
    ExtensionBienFormada =>
        /\ \A k \in CiclosConVerde :
              /\ DuracionPorCiclo(k, Len(Eventos)) >= cfg.g_min
              /\ DuracionPorCiclo(k, Len(Eventos)) <= cfg.g_max
        /\ (VerdeTerminado /\ ciclo_numero \in CiclosConVerde) =>
              DuracionPorCiclo(ciclo_numero, Len(Eventos)) = tiempo_verde_total

----------------------------------------------------------------------------
(* C37 *)

\* the second run is the adaptive controller with g_min = g_max = g_v
GemeloDegenerado == corrida = 2 /\ Adaptativo /\ cfg.g_min = cfg.g_max

\* the pedestrian phase has been activated at every decision so far
SiempreActivada ==
    \A i \in 1..Len(Decisiones) : Decisiones[i].tipo # "SALTAR_FASE_PEATONAL"

\* nothing is left to do at the present clock
Asentado(f) ==
    f.terminado \/ f.agenda = <<>> \/ Head(f.agenda).t > f.now

\* a phase record as both controllers write it: the adaptive initial block is
\* the vehicle green, and the info field is the adaptive controller's own
FaseComun(e) ==
    [tiempo |-> e.tiempo,
     fase |-> IF e.fase = "VERDE_VEHICULAR_INICIAL" THEN "VERDE_VEHICULAR"
              ELSE e.fase,
     duracion |-> e.duracion, ciclo |-> e.ciclo,
     cola_v |-> e.cola_v, cola_p |-> e.cola_p]

\* what the two runs have in common: clock, pending events, queues, the
\* service in progress, the random stream and the records
Comun(f) ==
    [now |-> f.now, agenda |-> f.agenda,
     pc |-> [p \in Procesos \ {"fvv"} |-> f.pc[p]],
     cola_vehiculos |-> f.cola_vehiculos, cola_peatones |-> f.cola_peatones,
     vehiculo_id |-> f.vehiculo_id, peaton_id |-> f.peaton_id,
     fase_actual |-> f.fase_actual, ciclo_numero |-> f.ciclo_numero,
     serv |-> [f.serv EXCEPT !.padre = ""],
     terminado |-> f.terminado, rng |-> f.rng,
     fases |-> [i \in 1..Len(f.registros.eventos_semaforo) |->
                   FaseComun(f.registros.eventos_semaforo[i])],
     llegadas_vehiculos |-> f.registros.llegadas_vehiculos,
     llegadas_peatones |-> f.registros.llegadas_peatones,
     servicios_vehiculos |-> f.registros.servicios_vehiculos,
     servicios_peatones |-> f.registros.servicios_peatones,
     estado_colas |-> f.registros.estado_colas]

\* C37: when the adaptive controller is run with g_min = g_max = g_v after the
\* fixed controller on the same seed, rates, g_p and amber, it makes no
\* extension and records no EXTENSION or FIN_EXTENSION decision and no
\* extension phase; and as long as the pedestrian phase has been activated at
\* every decision (t_p = 0, or the pedestrian queue was not empty), whenever
\* nothing is left to do at the present clock the fixed run had, at the same
\* clock, the same pending events, queues, service in progress, random stream,
\* phase starts, arrival and service records and queue snapshots
C37_GemeloIgualAlFijo ==
    GemeloDegenerado =>
       /\ extensiones = 0
       /\ \A i \in 1..Len(Decisiones) :
             Decisiones[i].tipo \notin {"EXTENSION", "FIN_EXTENSION"}
       /\ \A i \in 1..Len(Eventos) :
             Eventos[i].fase # "VERDE_VEHICULAR_EXTENSION"
       /\ (SiempreActivada /\ Asentado(Foto)) =>
             \E i \in 1..Len(traza) :
                Asentado(traza[i]) /\ Comun(traza[i]) = Comun(Foto)

\* the degenerate twin has run to the end with a positive pedestrian
\* threshold, through two cycles with a pedestrian phase, and served entities
C37_Testigo ==
    /\ GemeloDegenerado
    /\ terminado
    /\ cfg.t_p > 0
    /\ SiempreActivada
    /\ ciclo_numero >= 2
    /\ Len(registros.servicios_vehiculos) >= 1
    /\ Len(registros.servicios_peatones) >= 1

============================================================================
